---- MODULE Spec2Model ----
(***************************************************************************)
(* Model of the Singapore postcode validator                               *)
(*   src/singapore_postcode_geocoding/data_validation/                     *)
(*       singapore_postcode_validation.py          (specification Spec)    *)
(*   src/singapore_postcode_geocoding/pipelines/data_validation/nodes.py   *)
(*                                                 (specification SpecNodes)*)
(*                                                                         *)
(* A table is a record [cols, rows]: the set of column names and the       *)
(* sequence of rows, each row a function from column name to cell.  A cell *)
(* is a record [k, v, f, s]:                                               *)
(*   k = "nan"   null / NaN / <NA>                                         *)
(*   k = "num"   a number x with v = floor(x) and f = (x has a non-zero    *)
(*               fractional part)                                          *)
(*   k = "str"   a string, s its sequence of characters (a reason code is  *)
(*               a one-token string)                                       *)
(*   k = "bool"  a boolean, f its value                                    *)
(* Tables are objects on a heap: DataFrame.assign, boolean indexing and    *)
(* DataFrame.drop each allocate a new table and leave their operand alone. *)
(***************************************************************************)
EXTENDS Integers, Sequences, FiniteSets, TLC

VARIABLES heap, df, pc, err, ret, cfg, master, input_col,
          candidates, extracted,
          aic, variant, rng, cand, results, conv, success, first, call,
          ref, session_state

\* the state of regex_extract: its argument and its result
extract_vars == <<candidates, extracted>>

\* the state of the Identifier and the Converter
identify_vars ==
    <<aic, variant, rng, cand, results, conv, success, first, call>>

\* the state of the app: the reference table of the geocode join and
\* Streamlit's st.session_state
join_vars == <<ref, session_state>>

vars == <<heap, df, pc, err, ret, cfg, master, input_col,
          extract_vars, identify_vars, join_vars>>

(* ------------------------------ bounds -------------------------------- *)

MaxRows == 2

MaxMasterCols == 2

(* ------------------------------- cells -------------------------------- *)

NaN == [k |-> "nan", v |-> 0, f |-> FALSE, s |-> <<>>]

Num(i, frac) == [k |-> "num", v |-> i, f |-> frac, s |-> <<>>]

Str(chars) == [k |-> "str", v |-> 0, f |-> FALSE, s |-> chars]

Bool(b) == [k |-> "bool", v |-> 0, f |-> b, s |-> <<>>]

isna(c) == c.k = "nan"

notna(c) == ~isna(c)

Truthy(c) == c.k = "bool" /\ c.f

DigitChars == <<"0", "1", "2", "3", "4", "5", "6", "7", "8", "9">>

IsDigit(c) == \E d \in 1..Len(DigitChars) : DigitChars[d] = c

DigitVal(c) == (CHOOSE d \in 1..Len(DigitChars) : DigitChars[d] = c) - 1

AllDigits(s) == \A i \in 1..Len(s) : IsDigit(s[i])

RECURSIVE DigitsValue(_)
DigitsValue(s) ==
    IF s = <<>> THEN 0
    ELSE 10 * DigitsValue(SubSeq(s, 1, Len(s) - 1)) + DigitVal(s[Len(s)])

(* ----------------------- configuration (defaults) --------------------- *)

RangeMinDefault == 18906

RangeMaxDefault == 918146

ZfillWidth == 6

VALIDATION_DEFAULTS ==
    [range |-> [int |-> <<RangeMinDefault, RangeMaxDefault>>],
     drop_incorrect |-> FALSE,
     keep_formatted_postcode_field |-> TRUE,
     keep_validation_fields |-> TRUE,
     validation_field_names |->
        [correct_input_flag |-> "CORRECT_INPUT_POSTCODE",
         incorrect_reason |-> "INCORRECT_INPUT_POSTCODE_REASON",
         formatted_postcode |-> "FORMATTED_POSTCODE"]]

NO_INPUT_PROVIDED == Str(<<"NO_INPUT_PROVIDED">>)

NOT_NUMERIC == Str(<<"NOT_NUMERIC">>)

NOT_INTEGER == Str(<<"NOT_INTEGER">>)

OUT_OF_RANGE == Str(<<"OUT_OF_RANGE">>)

NOT_IN_MASTER_DATASET == Str(<<"NOT_IN_MASTER_DATASET">>)

(* --------------------------- pandas primitives ------------------------ *)

\* df[col]: the column as a sequence of cells
Col(t, c) == [i \in 1..Len(t.rows) |-> t.rows[i][c]]

\* df.assign(**{col: series}): a new table, the column added or replaced
Assign(t, c, series) ==
    [cols |-> t.cols \cup {c},
     rows |-> [i \in 1..Len(t.rows) |->
                 [x \in t.cols \cup {c} |->
                     IF x = c THEN series[i] ELSE t.rows[i][x]]]]

\* a scalar broadcast over the rows of t
Broadcast(t, val) == [i \in 1..Len(t.rows) |-> val]

\* Series.mask(cond, other): other where cond holds
Mask(series, cond, other) ==
    [i \in 1..Len(series) |-> IF cond[i] THEN other ELSE series[i]]

\* Series.where(cond, other): other where cond does not hold
Where(series, cond, other) ==
    [i \in 1..Len(series) |-> IF Truthy(cond[i]) THEN series[i] ELSE other]

\* float() of a string: [-] digits [. digits], anything else does not parse
ParseFloat(s) ==
    LET neg  == Len(s) > 0 /\ s[1] = "-"
        body == IF neg THEN Tail(s) ELSE s
        dots == {i \in 1..Len(body) : body[i] = "."}
        dot  == IF dots = {} THEN Len(body) + 1
                ELSE CHOOSE i \in dots : TRUE
        ip   == SubSeq(body, 1, dot - 1)
        fp   == SubSeq(body, dot + 1, Len(body))
        ok   == /\ Cardinality(dots) <= 1
                /\ AllDigits(ip) /\ AllDigits(fp)
                /\ Len(ip) + Len(fp) > 0
        frac == \E i \in 1..Len(fp) : fp[i] # "0"
        mag  == DigitsValue(ip)
    IN  IF ~ok THEN NaN
        ELSE IF neg THEN Num(IF frac THEN 0 - mag - 1 ELSE 0 - mag, frac)
        ELSE Num(mag, frac)

\* pd.to_numeric(series, errors="coerce"), one element
to_numeric(c) ==
    CASE c.k = "num"  -> c
      [] c.k = "str"  -> ParseFloat(c.s)
      [] c.k = "bool" -> Num(IF c.f THEN 1 ELSE 0, FALSE)
      [] OTHER        -> NaN

\* Series.between(lo, hi, inclusive="both"), one element (NaN is not between)
between(c, lo, hi) ==
    /\ c.k = "num"
    /\ lo <= c.v
    /\ (c.v < hi \/ (c.v = hi /\ ~c.f))

RECURSIVE IntToChars(_)
IntToChars(n) ==
    IF n < 10 THEN <<DigitChars[n + 1]>>
    ELSE IntToChars(n \div 10) \o <<DigitChars[(n % 10) + 1]>>

\* Series.astype("string") on Int64, one element
astype_string(c) ==
    IF c.k # "num" THEN NaN
    ELSE IF c.v < 0 THEN Str(<<"-">> \o IntToChars(0 - c.v))
    ELSE Str(IntToChars(c.v))

RECURSIVE Zeros(_)
Zeros(n) == IF n <= 0 THEN <<>> ELSE <<"0">> \o Zeros(n - 1)

\* str.zfill(width), one element: pads on the left, never truncates
zfill(c, width) ==
    IF c.k # "str" THEN c
    ELSE IF Len(c.s) > 0 /\ c.s[1] = "-"
         THEN Str(<<"-">> \o Zeros(width - Len(c.s)) \o Tail(c.s))
    ELSE Str(Zeros(width - Len(c.s)) \o c.s)

(* ---------- data_validation/singapore_postcode_validation.py ---------- *)

\* series % 1 != 0, one element (NaN % 1 is NaN, and NaN != 0 is true)
ModOneNonZero(c) == IF c.k = "num" THEN c.f ELSE TRUE

\* Series.astype("Int64") raises TypeError on a float with a fractional part
astype_Int64_raises(series) ==
    \E i \in 1..Len(series) : series[i].k = "num" /\ series[i].f

\* Series.astype("Int64"), one element, when it does not raise
astype_Int64(c) == IF c.k = "num" THEN Num(c.v, FALSE) ELSE NaN

parse_numeric_postcodes(t, incol, names) ==
    LET numeric_series ==
            [i \in 1..Len(t.rows) |-> to_numeric(t.rows[i][incol])]
        \* both assignments of a step read the table the step started from
        marked(d, mask, reason) ==
            Assign(Assign(d,
                names.incorrect_reason,
                Mask(Col(d, names.incorrect_reason), mask, reason)),
                names.correct_input_flag,
                Mask(Col(d, names.correct_input_flag), mask, Bool(FALSE)))
        non_numeric(df1) ==
            marked(df1,
                   [i \in 1..Len(t.rows) |->
                       isna(numeric_series[i]) /\ notna(df1.rows[i][incol])],
                   NOT_NUMERIC)
        null_input(df2) ==
            marked(df2,
                   [i \in 1..Len(t.rows) |-> isna(df2.rows[i][incol])],
                   NO_INPUT_PROVIDED)
    IN  null_input(non_numeric(
            Assign(Assign(Assign(t,
                names.formatted_postcode, numeric_series),
                names.incorrect_reason, Broadcast(t, NaN)),
                names.correct_input_flag, Broadcast(t, Bool(TRUE)))))

check_is_integer(t, names) ==
    LET fp == Col(t, names.formatted_postcode)
        non_integer_mask ==
            [i \in 1..Len(t.rows) |-> notna(fp[i]) /\ ModOneNonZero(fp[i])]
    IN  Assign(Assign(Assign(t,
            names.incorrect_reason,
            Mask(Col(t, names.incorrect_reason), non_integer_mask, NOT_INTEGER)),
            names.correct_input_flag,
            Mask(Col(t, names.correct_input_flag), non_integer_mask, Bool(FALSE))),
            names.formatted_postcode,
            Mask(fp, non_integer_mask, NaN))

\* check_postcode_range with the range bounds taken as exclusive
check_postcode_range_exclusive(t, postal_int_range, names) ==
    LET fp == Col(t, names.formatted_postcode)
        out_of_range_mask ==
            [i \in 1..Len(t.rows) |->
                ~between(fp[i], postal_int_range[1] + 1, postal_int_range[2] - 1)
                /\ notna(fp[i])]
    IN  Assign(Assign(Assign(t,
            names.incorrect_reason,
            Mask(Col(t, names.incorrect_reason), out_of_range_mask, OUT_OF_RANGE)),
            names.correct_input_flag,
            Mask(Col(t, names.correct_input_flag), out_of_range_mask, Bool(FALSE))),
            names.formatted_postcode,
            Mask(fp, out_of_range_mask, NaN))

check_postcode_range(t, postal_int_range, names) ==
    LET fp == Col(t, names.formatted_postcode)
        out_of_range_mask ==
            [i \in 1..Len(t.rows) |->
                ~between(fp[i], postal_int_range[1], postal_int_range[2])
                /\ notna(fp[i])]
    IN  Assign(Assign(Assign(t,
            names.incorrect_reason,
            Mask(Col(t, names.incorrect_reason), out_of_range_mask, OUT_OF_RANGE)),
            names.correct_input_flag,
            Mask(Col(t, names.correct_input_flag), out_of_range_mask, Bool(FALSE))),
            names.formatted_postcode,
            Mask(fp, out_of_range_mask, NaN))

\* the astype("Int64") of format_valid_postcodes raises
format_valid_postcodes_raises(t, names) ==
    astype_Int64_raises(Col(t, names.formatted_postcode))

format_valid_postcodes(t, names) ==
    LET valid_mask == Col(t, names.correct_input_flag)
        fp == Col(t, names.formatted_postcode)
        formatted ==
            [i \in 1..Len(t.rows) |->
                zfill(astype_string(astype_Int64(fp[i])), ZfillWidth)]
    IN  Assign(t, names.formatted_postcode, Where(formatted, valid_mask, NaN))

\* the shape test written as "more than one column"
check_in_master_dataset_raises_gt(m) == m.kind = "frame" /\ m.ncols > 1

\* the shape test of check_in_master_dataset: a DataFrame not of one column
check_in_master_dataset_raises(m) == m.kind = "frame" /\ m.ncols # 1

\* check_in_master_dataset whose mask forgets the rows already rejected
check_in_master_dataset_any_row(t, m, names) ==
    LET fp == Col(t, names.formatted_postcode)
        not_in_master_mask ==
            [i \in 1..Len(t.rows) |-> ~(fp[i] \in m.vals)]
    IN  Assign(Assign(t,
            names.incorrect_reason,
            Mask(Col(t, names.incorrect_reason), not_in_master_mask,
                 NOT_IN_MASTER_DATASET)),
            names.correct_input_flag,
            Mask(Col(t, names.correct_input_flag), not_in_master_mask,
                 Bool(FALSE)))

\* check_in_master_dataset that also clears the formatted postcode it rejects
check_in_master_dataset_clears(t, m, names) ==
    LET fp == Col(t, names.formatted_postcode)
        flag == Col(t, names.correct_input_flag)
        not_in_master_mask ==
            [i \in 1..Len(t.rows) |-> ~(fp[i] \in m.vals) /\ Truthy(flag[i])]
    IN  Assign(Assign(Assign(t,
            names.incorrect_reason,
            Mask(Col(t, names.incorrect_reason), not_in_master_mask,
                 NOT_IN_MASTER_DATASET)),
            names.correct_input_flag,
            Mask(flag, not_in_master_mask, Bool(FALSE))),
            names.formatted_postcode,
            Mask(fp, not_in_master_mask, NaN))

check_in_master_dataset(t, m, names) ==
    LET master_postcodes_series == m.vals
        fp == Col(t, names.formatted_postcode)
        flag == Col(t, names.correct_input_flag)
        not_in_master_mask ==
            [i \in 1..Len(t.rows) |->
                ~(fp[i] \in master_postcodes_series) /\ Truthy(flag[i])]
    IN  Assign(Assign(t,
            names.incorrect_reason,
            Mask(Col(t, names.incorrect_reason), not_in_master_mask,
                 NOT_IN_MASTER_DATASET)),
            names.correct_input_flag,
            Mask(flag, not_in_master_mask, Bool(FALSE)))

\* df[df[flag]]: boolean indexing, a new table with the rows whose flag is true
BoolIndex(t, c) ==
    [cols |-> t.cols, rows |-> SelectSeq(t.rows, LAMBDA r : Truthy(r[c]))]

\* df.drop(columns=cs): a new table without the columns cs
DropColumns(t, cs) ==
    [cols |-> t.cols \ cs,
     rows |-> [i \in 1..Len(t.rows) |-> [x \in t.cols \ cs |-> t.rows[i][x]]]]

\* post-processing that drops the formatted column only together with the
\* validation columns
post_process_nested(t, c) ==
    LET names == c.validation_field_names
        t1 == IF c.drop_incorrect
              THEN BoolIndex(t, names.correct_input_flag) ELSE t
    IN  IF c.keep_validation_fields = FALSE
        THEN IF c.keep_formatted_postcode_field = FALSE
             THEN DropColumns(t1, {names.correct_input_flag,
                                   names.incorrect_reason,
                                   names.formatted_postcode})
             ELSE DropColumns(t1, {names.correct_input_flag,
                                   names.incorrect_reason})
        ELSE t1

\* the post-processing of validate_and_format_postcodes
post_process(t, c) ==
    LET names == c.validation_field_names
        t1 == IF c.drop_incorrect
              THEN BoolIndex(t, names.correct_input_flag) ELSE t
        t2 == IF c.keep_validation_fields = FALSE
              THEN DropColumns(t1, {names.correct_input_flag,
                                    names.incorrect_reason})
              ELSE t1
    IN  IF c.keep_formatted_postcode_field = FALSE
        THEN DropColumns(t2, {names.formatted_postcode}) ELSE t2

\* post_process leaves the local df bound to the table it already names
post_process_rebinds(c) ==
    \/ c.drop_incorrect
    \/ c.keep_validation_fields = FALSE
    \/ c.keep_formatted_postcode_field = FALSE

(* -------------- pipelines/data_validation/nodes.py ------------------- *)

nodes_parse_numeric_postcodes(t, incol, names) ==
    parse_numeric_postcodes(t, incol, names)

\* as check_postcode_range above, but the working value is not cleared
nodes_check_postcode_range(t, postal_int_range, names) ==
    LET fp == Col(t, names.formatted_postcode)
        out_of_range_mask ==
            [i \in 1..Len(t.rows) |->
                ~between(fp[i], postal_int_range[1], postal_int_range[2])
                /\ notna(fp[i])]
    IN  Assign(Assign(t,
            names.incorrect_reason,
            Mask(Col(t, names.incorrect_reason), out_of_range_mask, OUT_OF_RANGE)),
            names.correct_input_flag,
            Mask(Col(t, names.correct_input_flag), out_of_range_mask, Bool(FALSE)))

nodes_format_valid_postcodes_raises(t, names) ==
    format_valid_postcodes_raises(t, names)

nodes_format_valid_postcodes(t, names) == format_valid_postcodes(t, names)

nodes_check_in_master_dataset_raises(m) == check_in_master_dataset_raises(m)

nodes_check_in_master_dataset(t, m, names) ==
    check_in_master_dataset(t, m, names)

nodes_post_process(t, c) == post_process(t, c)

(* ------------------------------ inputs -------------------------------- *)

\* the cells of the input column: null, text and numbers
InputCells ==
    {NaN,
     Str(<<>>),
     Str(<<"A", "1", "2", "3", "4", "5", "6">>),
     Str(<<"1", "2", "3", "4", "5", "6", ".", "8", "1">>),
     Str(<<"0", "1", "8", "9", "0", "6">>),
     Str(<<"1", "2", "3", "4", "5", "6">>),
     Str(<<"1", "2", "3", "4", "5", "6", ".", "0">>),
     Str(<<"1", "2", "3", "4", "5", "6", "7">>),
     Num(RangeMaxDefault, FALSE)}

InputCols == {"postcode"}

\* the name of the table's other column: any name, or the name of a
\* derived field (a table that was validated before)
OtherCols == {"ID", "FORMATTED_POSTCODE"}

\* tables of up to MaxRows rows with the input column and one other column
\* that numbers the rows
TablesWith(incol, other) ==
    UNION {{[cols |-> {other, incol},
             rows |-> [i \in 1..n |->
                         [x \in {other, incol} |->
                             IF x = incol THEN cells[i] ELSE Num(i, FALSE)]]] :
              cells \in [1..n -> InputCells]} : n \in 0..MaxRows}

InputTablesOf(incol) ==
    UNION {TablesWith(incol, other) : other \in OtherCols \ {incol}}

Ranges == {VALIDATION_DEFAULTS.range.int, <<0, 9999999>>}

Configs ==
    {[VALIDATION_DEFAULTS EXCEPT !.range.int = r,
                                 !.drop_incorrect = d,
                                 !.keep_validation_fields = kv,
                                 !.keep_formatted_postcode_field = kf] :
        r \in Ranges, d \in BOOLEAN, kv \in BOOLEAN, kf \in BOOLEAN}

MasterVals ==
    {Str(<<"0", "1", "8", "9", "0", "6">>),
     Str(<<"0", "1", "2", "3", "4", "5">>)}

NoMaster == [kind |-> "none", ncols |-> 0, vals |-> {}]

\* a master reference: absent, a Series, or a DataFrame of ncols columns
Masters ==
    {NoMaster, [kind |-> "series", ncols |-> 1, vals |-> MasterVals]}
    \cup {[kind |-> "frame", ncols |-> n,
           vals |-> IF n = 0 THEN {} ELSE MasterVals] : n \in 0..MaxMasterCols}

(* --------------------------- state machine ---------------------------- *)

Names == cfg.validation_field_names

\* df[col] = ...: the table the local name is bound to is written in place
StoreInPlace(t) ==
    /\ heap' = [heap EXCEPT ![df] = t]
    /\ df' = df

\* df = <expression building a new table>: the local name is rebound to a
\* new object, the caller's table heap[1] stays as it is
StoreNew(t) ==
    /\ heap' = <<heap[1], t>>
    /\ df' = 2

\* a component that takes no part in a specification stays as constructed
ExtractIdle == candidates = <<>> /\ extracted = <<>>

IdentifyIdle ==
    /\ aic = <<>>
    /\ variant = "none"
    /\ rng = <<>>
    /\ cand = <<>>
    /\ results = <<>>
    /\ conv = <<>>
    /\ success = "none"
    /\ first = <<>>
    /\ call = <<>>

SessionIdle == session_state = <<>>

JoinIdle == ref = <<>> /\ SessionIdle

Init ==
    /\ input_col \in InputCols
    /\ \E t \in InputTablesOf(input_col) : heap = <<t>>
    /\ cfg \in Configs
    /\ master \in Masters
    /\ df = 1
    /\ pc = "start"
    /\ err = "none"
    /\ ret = 0
    /\ ExtractIdle /\ IdentifyIdle /\ JoinIdle

Parse ==
    /\ pc = "start"
    /\ StoreNew(parse_numeric_postcodes(heap[df], input_col, Names))
    /\ pc' = "parsed"
    /\ UNCHANGED <<err, ret, cfg, master, input_col,
                 extract_vars, identify_vars, join_vars>>

CheckInteger ==
    /\ pc = "parsed"
    /\ StoreNew(check_is_integer(heap[df], Names))
    /\ pc' = "integer"
    /\ UNCHANGED <<err, ret, cfg, master, input_col,
                 extract_vars, identify_vars, join_vars>>

CheckRange ==
    /\ pc = "integer"
    /\ StoreNew(check_postcode_range(heap[df], cfg.range.int, Names))
    /\ pc' = "range"
    /\ UNCHANGED <<err, ret, cfg, master, input_col,
                 extract_vars, identify_vars, join_vars>>

Format ==
    /\ pc = "range"
    /\ IF format_valid_postcodes_raises(heap[df], Names)
       THEN /\ err' = "TypeError"
            /\ pc' = "raised"
            /\ UNCHANGED <<heap, df>>
       ELSE /\ StoreNew(format_valid_postcodes(heap[df], Names))
            /\ pc' = "formatted"
            /\ err' = err
    /\ UNCHANGED <<ret, cfg, master, input_col,
                 extract_vars, identify_vars, join_vars>>

CheckMaster ==
    /\ pc = "formatted"
    /\ master.kind # "none"
    /\ IF check_in_master_dataset_raises(master)
       THEN /\ err' = "ValueError"
            /\ pc' = "raised"
            /\ UNCHANGED <<heap, df>>
       ELSE /\ StoreNew(check_in_master_dataset(heap[df], master, Names))
            /\ pc' = "master"
            /\ err' = err
    /\ UNCHANGED <<ret, cfg, master, input_col,
                 extract_vars, identify_vars, join_vars>>

PostProcess ==
    /\ \/ pc = "master"
       \/ pc = "formatted" /\ master.kind = "none"
    /\ IF post_process_rebinds(cfg)
       THEN StoreNew(post_process(heap[df], cfg))
       ELSE UNCHANGED <<heap, df>>
    /\ ret' = df'
    /\ pc' = "done"
    /\ UNCHANGED <<err, cfg, master, input_col,
                 extract_vars, identify_vars, join_vars>>

Next ==
    \/ Parse
    \/ CheckInteger
    \/ CheckRange
    \/ Format
    \/ CheckMaster
    \/ PostProcess

Spec == Init /\ [][Next]_vars

(* ----- the validator of pipelines/data_validation/nodes.py ------------ *)

\* a master reference of the shape the validator accepts
WellFormedMasters == {m \in Masters : ~nodes_check_in_master_dataset_raises(m)}

InitNodes ==
    /\ input_col \in InputCols
    /\ \E t \in InputTablesOf(input_col) : heap = <<t>>
    /\ cfg = VALIDATION_DEFAULTS
    /\ master \in WellFormedMasters
    /\ df = 1
    /\ pc = "start"
    /\ err = "none"
    /\ ret = 0
    /\ ExtractIdle /\ IdentifyIdle /\ JoinIdle

NodesParse ==
    /\ pc = "start"
    /\ StoreNew(nodes_parse_numeric_postcodes(heap[df], input_col, Names))
    /\ pc' = "parsed"
    /\ UNCHANGED <<err, ret, cfg, master, input_col,
                 extract_vars, identify_vars, join_vars>>

NodesCheckRange ==
    /\ pc = "parsed"
    /\ StoreNew(nodes_check_postcode_range(heap[df], cfg.range.int, Names))
    /\ pc' = "range"
    /\ UNCHANGED <<err, ret, cfg, master, input_col,
                 extract_vars, identify_vars, join_vars>>

NodesFormat ==
    /\ pc = "range"
    /\ IF nodes_format_valid_postcodes_raises(heap[df], Names)
       THEN /\ err' = "TypeError"
            /\ pc' = "raised"
            /\ UNCHANGED <<heap, df>>
       ELSE /\ StoreNew(nodes_format_valid_postcodes(heap[df], Names))
            /\ pc' = "formatted"
            /\ err' = err
    /\ UNCHANGED <<ret, cfg, master, input_col,
                 extract_vars, identify_vars, join_vars>>

NodesCheckMaster ==
    /\ pc = "formatted"
    /\ master.kind # "none"
    /\ IF nodes_check_in_master_dataset_raises(master)
       THEN /\ err' = "ValueError"
            /\ pc' = "raised"
            /\ UNCHANGED <<heap, df>>
       ELSE /\ StoreNew(nodes_check_in_master_dataset(heap[df], master, Names))
            /\ pc' = "master"
            /\ err' = err
    /\ UNCHANGED <<ret, cfg, master, input_col,
                 extract_vars, identify_vars, join_vars>>

NodesPostProcess ==
    /\ \/ pc = "master"
       \/ pc = "formatted" /\ master.kind = "none"
    /\ IF post_process_rebinds(cfg)
       THEN StoreNew(nodes_post_process(heap[df], cfg))
       ELSE UNCHANGED <<heap, df>>
    /\ ret' = df'
    /\ pc' = "done"
    /\ UNCHANGED <<err, cfg, master, input_col,
                 extract_vars, identify_vars, join_vars>>

NextNodes ==
    \/ NodesParse
    \/ NodesCheckRange
    \/ NodesFormat
    \/ NodesCheckMaster
    \/ NodesPostProcess

SpecNodes == InitNodes /\ [][NextNodes]_vars

(* ---- pipelines/postcode_identification/nodes/auto_identification.py -- *)
(* ------------------------------ regex_extract ------------------------- *)

\* A pattern of the family used by the repository: a run of lo..hi digits
\* with no digit before or after it.  groups is the number of capture
\* groups the pattern text has; in the patterns that have one, group 1
\* spans the whole match.

\* (?<!\d)\d{5,6}(?!\d), the pattern of regex_extract's docstring
DOCSTRING_PATTERN == [groups |-> 0, lo |-> 5, hi |-> 6]

\* ((?<!\d)\d{5,6}(?!\d)), the pattern of the tests
TEST_PATTERN == [groups |-> 1, lo |-> 5, hi |-> 6]

\* ((?<!\d)\d{6}(?!\d)), six digits only
SIX_DIGIT_PATTERN == [groups |-> 1, lo |-> 6, hi |-> 6]

\* None and Some(x): an optional value
None == <<>>

Some(x) == <<x>>

\* auto_identify_config of the application: (?<!\d)(\d{5,6})(?!\d), a
\* threshold of 0.1 (a ratio <<1, 10>>), no sample_size and no seed
APP_AUTO_IDENTIFY_CONFIG ==
    [regex_pattern |-> [groups |-> 1, lo |-> 5, hi |-> 6],
     success_threshold |-> Some(<<1, 10>>),
     sample_size |-> None,
     seed |-> None]

\* the lengths n for which s[i .. i+n-1] matches the pattern at position i
MatchLens(s, i, p) ==
    {n \in p.lo..p.hi :
        /\ i + n - 1 <= Len(s)
        /\ \A k \in i..(i + n - 1) : IsDigit(s[k])
        /\ (i = 1 \/ ~IsDigit(s[i - 1]))
        /\ (i + n > Len(s) \/ ~IsDigit(s[i + n]))}

\* re.search: the leftmost position with a match, the longest match there
FirstMatch(s, p) ==
    LET starts == {i \in 1..Len(s) : MatchLens(s, i, p) # {}}
    IN  IF starts = {} THEN NaN
        ELSE LET i == CHOOSE x \in starts : \A y \in starts : x <= y
                 n == CHOOSE x \in MatchLens(s, i, p) :
                         \A y \in MatchLens(s, i, p) : y <= x
             IN  Str(SubSeq(s, i, i + n - 1))

\* Series.astype("string"), one element: text stays, an integer is written
\* in decimal, null stays null
astype_string_object(c) ==
    CASE c.k = "str" -> c
      [] c.k = "num" -> astype_string(c)
      [] OTHER       -> NaN

\* Series.str.extract raises ValueError("pattern contains no capture groups")
regex_extract_raises(regex_pattern) == regex_pattern.groups = 0

\* regex_extract: the first capture group of the first match of every cell,
\* as a new Series
regex_extract(series, regex_pattern) ==
    [i \in 1..Len(series) |->
        LET c == astype_string_object(series[i])
        IN  IF c.k = "str" THEN FirstMatch(c.s, regex_pattern) ELSE NaN]

\* cells of a column of text: null, text without a code, text with a code
\* of six or five digits, a run of seven digits, two codes, a number
ExtractCells ==
    {NaN,
     Str(<<"N", "o">>),
     Str(<<"A", " ", "1", "2", "3", "4", "5", "6">>),
     Str(<<"C", " ", "1", "2", "3", "4", "5">>),
     Str(<<"1", "2", "3", "4", "5", "6", "7">>),
     Str(<<"0", "1", "8", "9", "0", "6", "-", "1", "2", "3", "4", "5", "6">>),
     Num(RangeMaxDefault, FALSE)}

ExtractSeries == UNION {[1..n -> ExtractCells] : n \in 0..MaxRows}

ExtractPatterns == {DOCSTRING_PATTERN, TEST_PATTERN, SIX_DIGIT_PATTERN}

\* the validator takes no part
ValidatorIdle ==
    /\ heap = <<>>
    /\ df = 0
    /\ ret = 0
    /\ cfg = VALIDATION_DEFAULTS
    /\ master = NoMaster
    /\ input_col = ""

InitExtract ==
    /\ candidates \in ExtractSeries
    /\ extracted = <<>>
    /\ aic \in {[APP_AUTO_IDENTIFY_CONFIG EXCEPT !.regex_pattern = p] :
                   p \in ExtractPatterns}
    /\ variant = "none"
    /\ rng = <<>>
    /\ cand = <<>>
    /\ results = <<>>
    /\ conv = <<>>
    /\ success = "none"
    /\ first = <<>>
    /\ call = <<>>
    /\ pc = "start"
    /\ err = "none"
    /\ ValidatorIdle /\ JoinIdle

RegexExtract ==
    /\ pc = "start"
    /\ IF regex_extract_raises(aic.regex_pattern)
       THEN /\ err' = "ValueError"
            /\ pc' = "raised"
            /\ UNCHANGED extracted
       ELSE /\ extracted' = regex_extract(candidates, aic.regex_pattern)
            /\ pc' = "extracted"
            /\ err' = err
    /\ UNCHANGED <<heap, df, ret, cfg, master, input_col, candidates,
                   identify_vars, join_vars>>

NextExtract == RegexExtract

SpecExtract == InitExtract /\ [][NextExtract]_vars

(* ------------- validate_and_format_postcodes as one call -------------- *)

\* the exception validate_and_format_postcodes of nodes.py ends with, or
\* "none": TypeError from astype("Int64"), ValueError from the master shape
nodes_validate_error(t, incol, c, m) ==
    LET names == c.validation_field_names
        t1 == nodes_parse_numeric_postcodes(t, incol, names)
        t2 == nodes_check_postcode_range(t1, c.range.int, names)
    IN  IF nodes_format_valid_postcodes_raises(t2, names) THEN "TypeError"
        ELSE IF m.kind # "none" /\ nodes_check_in_master_dataset_raises(m)
             THEN "ValueError"
        ELSE "none"

\* the table validate_and_format_postcodes of nodes.py returns
nodes_validate_and_format_postcodes(t, incol, c, m) ==
    LET names == c.validation_field_names
        master_stage(t3) ==
            IF m.kind # "none"
            THEN nodes_check_in_master_dataset(t3, m, names) ELSE t3
    IN  nodes_post_process(
            master_stage(
                nodes_format_valid_postcodes(
                    nodes_check_postcode_range(
                        nodes_parse_numeric_postcodes(t, incol, names),
                        c.range.int, names),
                    names)),
            c)

(* ------------------- success rates and the ranked list ---------------- *)

\* a success rate is a ratio <<k, n>>: k true flags out of n; the mean of
\* no flags, <<0, 0>>, is NaN
RateNaN == <<0, 0>>

RateIsNaN(r) == r[2] = 0

RateIsZero(r) == r[2] > 0 /\ r[1] = 0

\* a > b on floats: false when either side is NaN
RateGT(a, b) == ~RateIsNaN(a) /\ ~RateIsNaN(b) /\ a[1] * b[2] > b[1] * a[2]

RateEQ(a, b) == ~RateIsNaN(a) /\ ~RateIsNaN(b) /\ a[1] * b[2] = b[1] * a[2]

RateLT(a, b) == RateGT(b, a)

\* Series.mean() of a column of flags
mean(flags) ==
    <<Cardinality({i \in 1..Len(flags) : Truthy(flags[i])}), Len(flags)>>

\* the order with the tie between equal rates broken the other way round
RankedBefore_indirect_first(a, b) ==
    \/ RateGT(a.rate, b.rate)
    \/ ~RateIsNaN(a.rate) /\ RateIsNaN(b.rate)
    \/ /\ RateEQ(a.rate, b.rate) \/ (RateIsNaN(a.rate) /\ RateIsNaN(b.rate))
       /\ a.method = "INDIRECT" /\ b.method = "DIRECT"

\* the order of sort_values(["CONVERSION_SUCCESS_RATE", "METHOD"],
\* ascending=[False, True]): higher rate first, NaN rates last, and for
\* equal rates "DIRECT" before "INDIRECT"
RankedBefore(a, b) ==
    \/ RateGT(a.rate, b.rate)
    \/ ~RateIsNaN(a.rate) /\ RateIsNaN(b.rate)
    \/ /\ RateEQ(a.rate, b.rate) \/ (RateIsNaN(a.rate) /\ RateIsNaN(b.rate))
       /\ a.method = "DIRECT" /\ b.method = "INDIRECT"

\* e put into a sorted list behind every entry it does not precede
RECURSIVE InsertRanked(_, _)
InsertRanked(e, sorted) ==
    IF sorted = <<>> THEN <<e>>
    ELSE IF RankedBefore(e, Head(sorted)) THEN <<e>> \o sorted
    ELSE <<Head(sorted)>> \o InsertRanked(e, Tail(sorted))

\* DataFrame.sort_values on the two keys: a stable sort
RECURSIVE sort_values(_)
sort_values(entries) ==
    IF entries = <<>> THEN <<>>
    ELSE InsertRanked(entries[Len(entries)],
                      sort_values(SubSeq(entries, 1, Len(entries) - 1)))

\* float NaN written into a pattern, f"{nan}": the text "nan", which has
\* no capture group
NAN_AS_PATTERN == [groups |-> 0, lo |-> 0, hi |-> 0]

\* list(df.columns): the columns of a table in their order
ColumnOrder == <<"address", "postcode", "NAME", "ADDRESS", "LATITUDE">>

columns_of(t) == SelectSeq(ColumnOrder, LAMBDA c : c \in t.cols)

\* pd.DataFrame({name: series})
SingleColumn(name, series) ==
    [cols |-> {name}, rows |-> [i \in 1..Len(series) |-> [x \in {name} |-> series[i]]]]

\* df.sample / df.copy: the rows sel[1], sel[2], ... of t
TakeRows(t, sel) ==
    [cols |-> t.cols, rows |-> [i \in 1..Len(sel) |-> t.rows[sel[i]]]]

\* the ways to draw n different rows out of len
Selections(len, n) ==
    {s \in [1..n -> 1..len] : \A i, j \in 1..n : i # j => s[i] # s[j]}

Min(a, b) == IF a <= b THEN a ELSE b

(* ----------------------------- IdentifyPostcodes ---------------------- *)

\* set_test_validation_config
test_validation_settings(c) ==
    [c EXCEPT !.drop_incorrect = FALSE,
              !.keep_formatted_postcode_field = TRUE,
              !.keep_validation_fields = TRUE]

\* direct_conversion: the exception it ends with, or "none"
direct_conversion_error(series, c, m) ==
    nodes_validate_error(
        SingleColumn(c.validation_field_names.candidate_postcode, series),
        c.validation_field_names.candidate_postcode, c, m)

direct_conversion(series, c, m) ==
    nodes_validate_and_format_postcodes(
        SingleColumn(c.validation_field_names.candidate_postcode, series),
        c.validation_field_names.candidate_postcode, c, m)

\* indirect_extraction: the exception it ends with, or "none"
indirect_extraction_error(series, c, m, regex_pattern) ==
    IF regex_extract_raises(regex_pattern) THEN "ValueError"
    ELSE direct_conversion_error(regex_extract(series, regex_pattern), c, m)

\* indirect_extraction, as far as its flag column goes
indirect_extraction(series, c, m, regex_pattern) ==
    direct_conversion(regex_extract(series, regex_pattern), c, m)

\* the first exception of test_convert over the columns, or "none"
RECURSIVE test_convert_error(_, _, _, _, _)
test_convert_error(t, columns, c, m, regex_pattern) ==
    IF columns = <<>> THEN "none"
    ELSE LET col == Head(columns)
             first_error(d, i) ==
                 IF d # "none" THEN d
                 ELSE IF i # "none" THEN i
                 ELSE test_convert_error(t, Tail(columns), c, m,
                                         regex_pattern)
         IN  first_error(
                 direct_conversion_error(Col(t, col), c, m),
                 indirect_extraction_error(Col(t, col), c, m, regex_pattern))

\* the results list of test_convert: per column a DIRECT entry without a
\* REGEX_PATTERN key (NaN in the frame) and an INDIRECT entry with it
RECURSIVE test_convert_entries(_, _, _, _, _)
test_convert_entries(t, columns, c, m, regex_pattern) ==
    IF columns = <<>> THEN <<>>
    ELSE LET col == Head(columns)
             flag == c.validation_field_names.correct_input_flag
         IN  <<[rate |-> mean(Col(direct_conversion(Col(t, col), c, m), flag)),
                column |-> col,
                method |-> "DIRECT",
                regex |-> Some(NAN_AS_PATTERN)],
               [rate |-> mean(Col(indirect_extraction(Col(t, col), c, m,
                                                      regex_pattern), flag)),
                column |-> col,
                method |-> "INDIRECT",
                regex |-> Some(regex_pattern)]>>
             \o test_convert_entries(t, Tail(columns), c, m, regex_pattern)

test_convert(t, columns, c, m, regex_pattern) ==
    sort_values(test_convert_entries(t, columns, c, m, regex_pattern))

(* ------------------------------ ConvertPostcodes ---------------------- *)

\* the attributes set_conversion_column_method assigns; before the first
\* call they do not exist
NoConversion ==
    [set |-> FALSE, rate |-> RateNaN, column |-> "", method |-> "",
     regex |-> None, converted |-> FALSE]

\* "CONVERSION_SUCCESS_RATE" or 0: a rate of zero is falsy and replaced by
\* the int 0, any other rate (NaN too) is kept
rate_or_0(r) == IF RateIsZero(r) THEN <<0, 1>> ELSE r

\* set_conversion_column_method assigns the four attributes first and
\* tests them afterwards
set_conversion_column_method(e, old) ==
    [set |-> TRUE, rate |-> rate_or_0(e.rate), column |-> e.column,
     method |-> e.method, regex |-> e.regex, converted |-> old.converted]

\* the three tests of set_conversion_column_method; the pattern test is
\* "is None", which a NaN pattern passes
set_conversion_column_method_raises(e, t) ==
    \/ e.column \notin t.cols
    \/ e.method \notin {"DIRECT", "INDIRECT"}
    \/ e.method = "INDIRECT" /\ e.regex = None

\* check_threshold: its value, and whether that value is a Python bool
\* (threshold None, or the int 0 compared with the threshold) or a
\* numpy.bool_ (a numpy.float64 rate compared with the threshold)
check_threshold(c, threshold) ==
    IF threshold = None THEN [val |-> TRUE, py |-> TRUE]
    ELSE IF RateIsZero(c.rate)
         THEN [val |-> RateGT(c.rate, threshold[1]), py |-> TRUE]
    ELSE [val |-> RateGT(c.rate, threshold[1]), py |-> FALSE]

\* "check_threshold() is False": an identity test, true of the Python
\* object False only
is_False(b) == b.py /\ ~b.val

\* the row labels of a table: those of its index field, and 0..n-1 (a
\* RangeIndex) for a table that has none
index_of(t) ==
    IF "index" \in DOMAIN t THEN t.index ELSE [i \in 1..Len(t.rows) |-> i - 1]

\* df.assign(**{col: series}) with a series labelled 0..n-1, as regex_extract
\* returns it: the row labelled l gets the value labelled l, or NaN
reindex(series, index) ==
    [i \in 1..Len(index) |->
        IF index[i] \in 0..(Len(series) - 1) THEN series[index[i] + 1]
        ELSE NaN]

\* convert_column: the exception it ends with, or "none"
convert_column_error(t, c, vc, m) ==
    LET indirect == c.method = "INDIRECT"
        extracted_col == vc.validation_field_names.extracted_postcode
    IN  IF ~c.set THEN "AttributeError"
        ELSE IF c.column \notin t.cols THEN "KeyError"
        ELSE IF indirect /\ (c.regex = None \/ regex_extract_raises(c.regex[1]))
        THEN "ValueError"
        ELSE nodes_validate_error(
                 IF indirect
                 THEN Assign(t, extracted_col,
                             reindex(regex_extract(Col(t, c.column),
                                                   c.regex[1]), index_of(t)))
                 ELSE t,
                 IF indirect THEN extracted_col ELSE c.column, vc, m)

\* convert_column: converted_df
convert_column(t, c, vc, m) ==
    LET indirect == c.method = "INDIRECT"
        extracted_col == vc.validation_field_names.extracted_postcode
    IN  nodes_validate_and_format_postcodes(
            IF indirect
            THEN Assign(t, extracted_col,
                        reindex(regex_extract(Col(t, c.column), c.regex[1]),
                                index_of(t)))
            ELSE t,
            IF indirect THEN extracted_col ELSE c.column, vc, m)

(* ---- pipelines/post_code_identification/nodes (function pipeline) ---- *)

SEED == 42

DefaultSampleSize == 100

\* POSTCODE_PATTERN of regex_postcode_identification.py
POSTCODE_PATTERN == [groups |-> 0, lo |-> 5, hi |-> 6]

EXTRACTED_POSTCODE == "EXTRACTED_POSTCODE"

\* clean_text_series, one element: a null or a cell that parses as a number
\* becomes the empty text
clean_text(c) ==
    IF notna(to_numeric(c)) \/ isna(c) THEN Str(<<>>)
    ELSE astype_string_object(c)

\* extract_postcodes_from_series names its result EXTRACTED_POSTCODE only
\* when "(pattern)" has one group; with more groups the columns are
\* EXTRACTED_POSTCODE_0, ... and the validator's df["EXTRACTED_POSTCODE"]
\* raises KeyError
extract_postcodes_from_series_error(pattern) ==
    IF pattern.groups + 1 # 1 THEN "KeyError" ELSE "none"

extract_postcodes_from_series(series, postcode_pattern) ==
    LET pattern == IF postcode_pattern = None THEN POSTCODE_PATTERN
                   ELSE postcode_pattern[1]
    IN  SingleColumn(EXTRACTED_POSTCODE,
            [i \in 1..Len(series) |-> FirstMatch(clean_text(series[i]).s, pattern)])

\* calculate_success_rate: 0.0 for an empty table
calculate_success_rate(flags) ==
    IF Len(flags) = 0 THEN <<0, 1>> ELSE mean(flags)

calculate_direct_match_success(t, column, c, m) ==
    calculate_success_rate(
        Col(nodes_validate_and_format_postcodes(t, column, c, m),
            "CORRECT_INPUT_POSTCODE"))

calculate_indirect_match_success(t, column, c, m, postcode_pattern) ==
    calculate_success_rate(
        Col(nodes_validate_and_format_postcodes(
                extract_postcodes_from_series(Col(t, column), postcode_pattern),
                EXTRACTED_POSTCODE, c, m),
            "CORRECT_INPUT_POSTCODE"))

\* the first exception of calculate_all_match_success, or "none": all the
\* direct rates are computed before the indirect ones
calculate_all_match_success_error(t, c, m, postcode_pattern) ==
    LET cols == columns_of(t)
        derr == {nodes_validate_error(t, cols[i], c, m) : i \in 1..Len(cols)}
               \ {"none"}
        pattern == IF postcode_pattern = None THEN POSTCODE_PATTERN
                   ELSE postcode_pattern[1]
        first_error(errors) ==
            IF errors # {} THEN CHOOSE e \in errors : TRUE
            ELSE IF cols = <<>> THEN "none"
            ELSE extract_postcodes_from_series_error(pattern)
    IN  first_error(derr)

\* calculate_all_match_success on the sample: the DIRECT frame and the
\* INDIRECT frame concatenated, then sorted
calculate_all_match_success(sample, c, m, postcode_pattern) ==
    LET cols == columns_of(sample)
    IN  sort_values(
            [i \in 1..Len(cols) |->
                [rate |-> calculate_direct_match_success(sample, cols[i], c, m),
                 column |-> cols[i],
                 method |-> "DIRECT",
                 regex |-> None]]
            \o
            [i \in 1..Len(cols) |->
                [rate |-> calculate_indirect_match_success(sample, cols[i], c, m,
                                                           postcode_pattern),
                 column |-> cols[i],
                 method |-> "INDIRECT",
                 regex |-> postcode_pattern]])

\* find_best_postcode_column: the first row passes unless its rate is
\* below the threshold
find_best_postcode_column_passed(match_success, threshold) ==
    ~RateLT(match_success[1].rate, threshold)

\* auto_convert_postcode_column when the best row passed
auto_convert_postcode_column(t, best, c, m) ==
    LET direct == best.method = "DIRECT"
    IN  nodes_validate_and_format_postcodes(
            IF direct THEN t
            ELSE extract_postcodes_from_series(Col(t, best.column),
                                               best.regex),
            IF direct THEN best.column ELSE EXTRACTED_POSTCODE, c, m)

(* ------------------- auto_convert_postcodes: inputs ------------------- *)

\* the validation config of the Identifier: the defaults and the names of
\* the candidate and the extracted column
IDENTIFY_VALIDATION_CONFIG ==
    [range |-> [int |-> <<RangeMinDefault, RangeMaxDefault>>],
     drop_incorrect |-> FALSE,
     keep_formatted_postcode_field |-> TRUE,
     keep_validation_fields |-> TRUE,
     validation_field_names |->
        [candidate_postcode |-> "CANDIDATE_POSTCODE",
         extracted_postcode |-> "EXTRACTED_POSTCODE",
         correct_input_flag |-> "CORRECT_INPUT_POSTCODE",
         incorrect_reason |-> "INCORRECT_INPUT_POSTCODE_REASON",
         formatted_postcode |-> "FORMATTED_POSTCODE"]]

\* cells of the user's table: an address column holds null or a text with
\* a postcode in it, a postcode column null, a postcode of the master or a
\* six-digit number that is not in the master
IdentifyCells(col) ==
    IF col = "address"
    THEN {NaN, Str(<<"A", " ", "0", "1", "8", "9", "0", "6">>)}
    ELSE {NaN,
          Str(<<"0", "1", "8", "9", "0", "6">>),
          Str(<<"1", "2", "3", "4", "5", "6">>)}

IdentifyRows ==
    {r \in [{"address", "postcode"} ->
                IdentifyCells("address") \cup IdentifyCells("postcode")] :
        \A col \in {"address", "postcode"} : r[col] \in IdentifyCells(col)}

IdentifyTables ==
    UNION {{[cols |-> {"address", "postcode"}, rows |-> r] :
              r \in [1..n -> IdentifyRows]} : n \in 0..MaxRows}

\* success_threshold 0.5 and 1.0
IdentifyThresholds == {<<1, 2>>, <<1, 1>>}

\* identify-configs: with and without a sample_size, with and without a seed
IdentifyConfigs ==
    {[regex_pattern |-> p,
      success_threshold |-> Some(th),
      sample_size |-> ss[1],
      seed |-> ss[2]] :
        p \in {DOCSTRING_PATTERN, TEST_PATTERN},
        th \in IdentifyThresholds,
        ss \in {<<None, None>>, <<Some(1), None>>, <<Some(1), Some(SEED)>>}}

IdentifyMaster == [kind |-> "series", ncols |-> 1, vals |-> MasterVals]

\* the number of rows a seeded df.sample draws
SeededSampleSize(v, c, len) ==
    IF v = "functions"
    THEN Min(IF c.sample_size = None THEN DefaultSampleSize
             ELSE c.sample_size[1], len)
    ELSE IF c.sample_size # None /\ c.seed # None
         THEN Min(c.sample_size[1], len)
    ELSE 0

(* ----------------- auto_convert_postcodes: state machine -------------- *)

\* rng is the draw the seeded generator makes: fixed for a seed, a table
\* length and a sample size, whatever it is
InitIdentify ==
    /\ \E t \in IdentifyTables : heap = <<t>>
    /\ df = 1
    /\ ret = 0
    /\ cfg = IDENTIFY_VALIDATION_CONFIG
    /\ master = IdentifyMaster
    /\ input_col = ""
    /\ aic \in IdentifyConfigs
    /\ variant \in {"classes", "functions"}
    /\ rng \in Selections(Len(heap[1].rows),
                          SeededSampleSize(variant, aic, Len(heap[1].rows)))
    /\ cand = <<>>
    /\ results = <<>>
    /\ conv = NoConversion
    /\ success = "none"
    /\ first = <<>>
    /\ call = <<>>
    /\ pc = "start"
    /\ err = "none"
    /\ ExtractIdle /\ JoinIdle

\* IdentifyPostcodes.set_sample_candidate_df
SetSampleCandidateDf ==
    /\ variant = "classes"
    /\ pc = "start"
    /\ IF aic.sample_size = None
       THEN cand' = heap[1]
       ELSE IF aic.seed = None
       THEN \E sel \in Selections(Len(heap[1].rows),
                                  Min(aic.sample_size[1], Len(heap[1].rows))) :
               cand' = TakeRows(heap[1], sel)
       ELSE cand' = TakeRows(heap[1], rng)
    /\ pc' = "sampled"
    /\ UNCHANGED <<heap, df, err, ret, cfg, master, input_col,
                   aic, variant, rng, results, conv, success, first,
                   call, extract_vars, join_vars>>

\* IdentifyPostcodes.test_convert_all_columns
TestConvertAllColumns ==
    /\ variant = "classes"
    /\ pc = "sampled"
    /\ \E e \in {test_convert_error(cand, columns_of(cand),
                                   test_validation_settings(cfg), master,
                                   aic.regex_pattern)} :
           IF e # "none"
           THEN /\ err' = e
                /\ pc' = "raised"
                /\ UNCHANGED results
           ELSE /\ results' = test_convert(cand, columns_of(cand),
                                           test_validation_settings(cfg),
                                           master, aic.regex_pattern)
                /\ pc' = "tested"
                /\ err' = err
    /\ UNCHANGED <<heap, df, ret, cfg, master, input_col,
                   aic, variant, rng, cand, conv, success, first,
                   call, extract_vars, join_vars>>

\* ConvertPostcodes(...).set_best_postcode_conversion_config()
SetBestPostcodeConversionConfig ==
    /\ variant = "classes"
    /\ pc = "tested"
    /\ LET best == sort_values(results)[1]
       IN  /\ conv' = set_conversion_column_method(best, NoConversion)
           /\ IF set_conversion_column_method_raises(best, heap[1])
              THEN err' = "ValueError" /\ pc' = "raised"
              ELSE err' = err /\ pc' = "configured"
    /\ UNCHANGED <<heap, df, ret, cfg, master, input_col,
                   aic, variant, rng, cand, results, success, first,
                   call, extract_vars, join_vars>>

\* the end of auto_convert_postcodes: the threshold test, then either the
\* caller's table or convert_column on the full table
CheckThresholdAndConvert ==
    /\ variant = "classes"
    /\ pc = "configured"
    /\ IF is_False(check_threshold(conv, aic.success_threshold))
       THEN /\ ret' = 1
            /\ success' = "false"
            /\ pc' = "returned"
            /\ UNCHANGED <<heap, err, conv>>
       ELSE \E e \in {convert_column_error(heap[1], conv, cfg, master)} :
                IF e # "none"
                THEN /\ err' = e
                     /\ pc' = "raised"
                     /\ UNCHANGED <<heap, ret, success, conv>>
                ELSE /\ heap' = <<heap[1],
                                  convert_column(heap[1], conv, cfg, master)>>
                     /\ ret' = 2
                     /\ success' = "true"
                     /\ conv' = [conv EXCEPT !.converted = TRUE]
                     /\ pc' = "returned"
                     /\ err' = err
    /\ UNCHANGED <<df, cfg, master, input_col,
                   aic, variant, rng, cand, results, first,
                   call, extract_vars, join_vars>>

\* calculate_all_match_success: the seeded sample, the rates, the ranking
CalculateAllMatchSuccess ==
    /\ variant = "functions"
    /\ pc = "start"
    /\ cand' = TakeRows(heap[1], rng)
    /\ \E e \in {calculate_all_match_success_error(
                    cand', cfg, master, Some(aic.regex_pattern))} :
           IF e # "none"
           THEN /\ err' = e
                /\ pc' = "raised"
                /\ UNCHANGED results
           ELSE /\ results' = calculate_all_match_success(
                                  cand', cfg, master, Some(aic.regex_pattern))
                /\ pc' = "tested"
                /\ err' = err
    /\ UNCHANGED <<heap, df, ret, cfg, master, input_col,
                   aic, variant, rng, conv, success, first,
                   call, extract_vars, join_vars>>

\* find_best_postcode_column
FindBestPostcodeColumn ==
    /\ variant = "functions"
    /\ pc = "tested"
    /\ conv' = [set |-> TRUE, rate |-> results[1].rate,
                column |-> results[1].column, method |-> results[1].method,
                regex |-> results[1].regex, converted |-> FALSE]
    /\ success' = IF find_best_postcode_column_passed(
                         results, aic.success_threshold[1])
                  THEN "true" ELSE "false"
    /\ pc' = "configured"
    /\ UNCHANGED <<heap, df, err, ret, cfg, master, input_col,
                   aic, variant, rng, cand, results, first,
                   call, extract_vars, join_vars>>

\* auto_convert_postcode_column
AutoConvertPostcodeColumn ==
    /\ variant = "functions"
    /\ pc = "configured"
    /\ IF success = "false"
       THEN /\ ret' = 1
            /\ UNCHANGED <<heap, conv>>
       ELSE /\ heap' = <<heap[1],
                         auto_convert_postcode_column(heap[1], conv, cfg, master)>>
            /\ ret' = 2
            /\ conv' = [conv EXCEPT !.converted = TRUE]
    /\ pc' = "returned"
    /\ UNCHANGED <<df, err, cfg, master, input_col,
                   aic, variant, rng, cand, results, success, first,
                   call, extract_vars, join_vars>>

\* the identification step is run once more on the same table with the
\* same config; the outcome of the first run is kept for comparison
RunAgain ==
    /\ pc = "tested"
    /\ first = <<>>
    /\ first' = <<[cand |-> cand, results |-> results]>>
    /\ cand' = <<>>
    /\ results' = <<>>
    /\ pc' = "start"
    /\ UNCHANGED <<heap, df, err, ret, cfg, master, input_col,
                   aic, variant, rng, conv, success,
                   call, extract_vars, join_vars>>

NextIdentify ==
    \/ SetSampleCandidateDf
    \/ TestConvertAllColumns
    \/ SetBestPostcodeConversionConfig
    \/ CheckThresholdAndConvert
    \/ CalculateAllMatchSuccess
    \/ FindBestPostcodeColumn
    \/ AutoConvertPostcodeColumn
    \/ RunAgain

SpecIdentify == InitIdentify /\ [][NextIdentify]_vars

(* --------------------- ConvertPostcodes: state machine ---------------- *)

\* convert_results as a caller hands them to ConvertPostcodes: no row, one
\* row, or two rows; the column may be absent from the table, the method
\* unknown, the pattern None (or its key missing), NaN or a pattern
ConverterEntries ==
    {[rate |-> <<1, 1>>, column |-> col, method |-> mt, regex |-> rx] :
        col \in {"address", "missing"},
        mt \in {"DIRECT", "INDIRECT", "INVALID"},
        rx \in {None, Some(NAN_AS_PATTERN), Some(TEST_PATTERN)}}

ConverterResults ==
    {<<>>}
    \cup {<<e>> : e \in ConverterEntries}
    \cup {<<e, [rate |-> <<1, 2>>, column |-> "postcode", method |-> "DIRECT",
                regex |-> Some(NAN_AS_PATTERN)]>> : e \in ConverterEntries}

ConverterTables == {t \in IdentifyTables : Len(t.rows) <= 1}

\* the arguments of set_postcode_conversion_config
ConfigColumns == {"address", "missing"}

ConfigMethods == {None, Some("INDIRECT")}

ConfigPatterns == {None, Some(TEST_PATTERN)}

InitConverter ==
    /\ \E t \in ConverterTables : heap = <<t>>
    /\ df = 1
    /\ ret = 0
    /\ cfg = IDENTIFY_VALIDATION_CONFIG
    /\ master = IdentifyMaster
    /\ input_col = ""
    /\ aic = APP_AUTO_IDENTIFY_CONFIG
    /\ variant = "classes"
    /\ rng = <<>>
    /\ cand = <<>>
    /\ results \in ConverterResults
    /\ conv = NoConversion
    /\ success = "none"
    /\ first = <<>>
    /\ call = <<>>
    /\ pc = "constructed"
    /\ err = "none"
    /\ ExtractIdle /\ JoinIdle

\* set_best_postcode_conversion_config: .iloc[0] of a frame without rows
\* raises IndexError; otherwise the attributes are assigned and then tested
ConverterSetBest ==
    /\ call' = <<[op |-> "set_best", column |-> "", method |-> None,
                  regex |-> None]>>
    /\ IF results = <<>>
       THEN /\ err' = "IndexError"
            /\ UNCHANGED conv
       ELSE LET best == sort_values(results)[1]
            IN  /\ conv' = set_conversion_column_method(best, conv)
                /\ err' = IF set_conversion_column_method_raises(best, heap[1])
                          THEN "ValueError" ELSE "none"
    /\ pc' = "called"
    /\ UNCHANGED <<heap, df, ret, cfg, master, input_col,
                   aic, variant, rng, cand, results, success, first,
                   extract_vars, join_vars>>

\* set_postcode_conversion_config: convert_results.filter("COLUMN == x")
\* filters the column labels by the items of its argument.  A pandas that
\* builds an Index of the argument raises TypeError for a string; a pandas
\* that iterates it keeps no column, so .iloc[0] is a row without entries
\* (IndexError when there is no row), and set_conversion_column_method
\* raises KeyError on "COLUMN" after it has assigned the rate
ConverterSetConfig ==
    /\ \E column \in ConfigColumns, method \in ConfigMethods,
          regex_pattern \in ConfigPatterns :
          call' = <<[op |-> "set_config", column |-> column,
                     method |-> method, regex |-> regex_pattern]>>
    /\ \E e \in {"TypeError",
                 IF results = <<>> THEN "IndexError" ELSE "KeyError"} :
          /\ err' = e
          /\ conv' = IF e = "KeyError"
                     THEN [conv EXCEPT !.rate = rate_or_0(<<0, 1>>)]
                     ELSE conv
    /\ pc' = "called"
    /\ UNCHANGED <<heap, df, ret, cfg, master, input_col,
                   aic, variant, rng, cand, results, success, first,
                   extract_vars, join_vars>>

\* convert_column on the full table
ConverterConvertColumn ==
    /\ call' = <<[op |-> "convert_column", column |-> "", method |-> None,
                  regex |-> None]>>
    /\ \E e \in {convert_column_error(heap[1], conv, cfg, master)} :
           /\ err' = e
           /\ IF e # "none"
              THEN UNCHANGED <<heap, ret, conv>>
              ELSE /\ heap' = <<heap[1],
                                convert_column(heap[1], conv, cfg, master)>>
                   /\ ret' = 2
                   /\ conv' = [conv EXCEPT !.converted = TRUE]
    /\ pc' = "called"
    /\ UNCHANGED <<df, cfg, master, input_col,
                   aic, variant, rng, cand, results, success, first,
                   extract_vars, join_vars>>

NextConverter ==
    \/ ConverterSetBest
    \/ ConverterSetConfig
    \/ ConverterConvertColumn

SpecConverter == InitConverter /\ [][NextConverter]_vars

\* the labels a table of n rows can carry after filtering or concatenation:
\* n different labels of 0..n
RowLabels(n) ==
    {ix \in [1..n -> 0..n] : \A i, j \in 1..n : ix[i] = ix[j] => i = j}

\* ConvertPostcodes on a table with any row labels and ranked results that
\* pass the configuration checks
InitConverterLabels ==
    /\ \E t \in IdentifyTables : \E ix \in RowLabels(Len(t.rows)) :
          heap = <<[cols |-> t.cols, rows |-> t.rows, index |-> ix]>>
    /\ df = 1
    /\ ret = 0
    /\ cfg = IDENTIFY_VALIDATION_CONFIG
    /\ master = IdentifyMaster
    /\ input_col = ""
    /\ aic = APP_AUTO_IDENTIFY_CONFIG
    /\ variant = "classes"
    /\ rng = <<>>
    /\ cand = <<>>
    /\ results \in {<<[rate |-> <<1, 1>>, column |-> "address",
                       method |-> "INDIRECT", regex |-> Some(TEST_PATTERN)]>>,
                    <<[rate |-> <<1, 1>>, column |-> "postcode",
                       method |-> "DIRECT", regex |-> Some(NAN_AS_PATTERN)]>>}
    /\ conv = NoConversion
    /\ success = "none"
    /\ first = <<>>
    /\ call = <<>>
    /\ pc = "constructed"
    /\ err = "none"
    /\ ExtractIdle /\ JoinIdle

\* the caller configures from the ranked results and converts
NextConverterLabels ==
    \/ ConverterSetBest
    \/ ConverterConvertColumn

SpecConverterLabels == InitConverterLabels /\ [][NextConverterLabels]_vars

(* ---------------------------- geocode join ----------------------------- *)

\* DataFrame.drop_duplicates(subset=key): the first row of every key is
\* kept, in order; null keys are equal to one another
drop_duplicates(t, key) ==
    LET keep == {i \in 1..Len(t.rows) :
                    \A j \in 1..(i - 1) : t.rows[j][key] # t.rows[i][key]}
        RECURSIVE kept(_)
        kept(i) == IF i > Len(t.rows) THEN <<>>
                   ELSE (IF i \in keep THEN <<t.rows[i]>> ELSE <<>>)
                        \o kept(i + 1)
    IN  [cols |-> t.cols, rows |-> kept(1)]

\* DataFrame.drop(columns=names): a name that is no column raises KeyError
drop_columns_error(t, names) ==
    IF names \subseteq t.cols THEN "none" ELSE "KeyError"

drop_columns(t, names) ==
    [cols |-> t.cols \ names,
     rows |-> [i \in 1..Len(t.rows) |->
                  [c \in t.cols \ names |-> t.rows[i][c]]]]

\* a merge that does not validate the cardinality
merge_error_unvalidated(left, right, key) ==
    IF key \notin left.cols \/ key \notin right.cols THEN "KeyError"
    ELSE "none"

\* validate="m:1": the keys of the right side are unique, null keys included
merge_error(left, right, key) ==
    IF key \notin left.cols \/ key \notin right.cols THEN "KeyError"
    ELSE IF \E i, j \in 1..Len(right.rows) :
                i # j /\ right.rows[i][key] = right.rows[j][key]
         THEN "MergeError"
         ELSE "none"

\* a merge that resolves a name collision by overwriting the left column
merge_overwrites(left, right, key, rsuffix) ==
    LET added == right.cols \ {key}
        hits(l) == {j \in 1..Len(right.rows) : right.rows[j][key] = l[key]}
    IN  [cols |-> left.cols \cup added,
         rows |-> [i \in 1..Len(left.rows) |->
                      [c \in left.cols \cup added |->
                          IF c \notin added THEN left.rows[i][c]
                          ELSE IF hits(left.rows[i]) = {} THEN NaN
                          ELSE right.rows[CHOOSE j \in hits(left.rows[i]) :
                                              TRUE][c]]]]

\* DataFrame.merge(how="left", suffixes=("", rsuffix)) on one key: a column
\* of the right side whose name the left side has too gets the suffix; the
\* rows of the left side in order, each once per row of the right side with
\* an equal key (a null key equals a null key), once with nulls when there
\* is none
merge(left, right, key, rsuffix) ==
    LET added == right.cols \ {key}
        merged_name(c) == IF c \in left.cols THEN c \o rsuffix ELSE c
        merged_cols == left.cols \cup {merged_name(c) : c \in added}
        joined(l, r) ==
            [c \in merged_cols |->
                IF c \in left.cols THEN l[c]
                ELSE r[CHOOSE a \in added : merged_name(a) = c]]
        nulls == [a \in added |-> NaN]
        RECURSIVE matches(_, _)
        matches(l, j) ==
            IF j > Len(right.rows) THEN <<>>
            ELSE (IF right.rows[j][key] = l[key]
                  THEN <<joined(l, right.rows[j])>> ELSE <<>>)
                 \o matches(l, j + 1)
        RECURSIVE rows_from(_)
        rows_from(i) ==
            IF i > Len(left.rows) THEN <<>>
            ELSE (IF matches(left.rows[i], 1) = <<>>
                  THEN <<joined(left.rows[i], nulls)>>
                  ELSE matches(left.rows[i], 1))
                 \o rows_from(i + 1)
    IN  [cols |-> merged_cols, rows |-> rows_from(1)]

\* merged_df["ADDRESS"].notna().sum()
matched_records(t) ==
    Cardinality({i \in 1..Len(t.rows) : t.rows[i]["ADDRESS"] # NaN})

\* the converted table of the user: its formatted postcode is null, a key of
\* the reference or a postcode the reference does not hold; the one column
\* it came with is named NAME or, as a column of the reference is, ADDRESS
JoinUserTables ==
    LET keys == {NaN,
                 Str(<<"0", "1", "8", "9", "0", "6">>),
                 Str(<<"1", "2", "3", "4", "5", "6">>)}
        cells == {Str(<<"a">>), Str(<<"b">>)}
    IN  UNION {{[cols |-> {o, "FORMATTED_POSTCODE"}, rows |-> r] :
                  r \in [1..n -> {row \in [{o, "FORMATTED_POSTCODE"} ->
                                              keys \cup cells] :
                                     /\ row[o] \in cells
                                     /\ row["FORMATTED_POSTCODE"] \in keys}]} :
               <<o, n>> \in {"NAME", "ADDRESS"} \X (0..MaxRows)}

\* the reference: a key (null or a postcode, possibly repeated) and the geo
\* field ADDRESS
MaxRefRows == 2

RefTables ==
    LET keys == {NaN, Str(<<"0", "1", "8", "9", "0", "6">>)}
        cells == {Str(<<"p">>), Str(<<"q">>)}
    IN  UNION {{[cols |-> {"FORMATTED_POSTCODE", "ADDRESS"}, rows |-> r] :
                  r \in [1..n -> {row \in [{"FORMATTED_POSTCODE", "ADDRESS"} ->
                                              keys \cup cells] :
                                     /\ row["ADDRESS"] \in cells
                                     /\ row["FORMATTED_POSTCODE"] \in keys}]} :
               n \in 0..MaxRefRows}

\* process_geocoding and the join of the main page start from the outcome of
\* the conversion: the converted table and the success flag
InitJoin ==
    /\ \E t \in JoinUserTables : heap = <<t>>
    /\ ref \in RefTables
    /\ SessionIdle
    /\ success \in {"true", "false"}
    /\ df = 1
    /\ ret = 0
    /\ cfg = IDENTIFY_VALIDATION_CONFIG
    /\ master = IdentifyMaster
    /\ input_col = ""
    /\ aic = APP_AUTO_IDENTIFY_CONFIG
    /\ variant = "none"
    /\ rng = <<>>
    /\ cand = <<>>
    /\ results = <<>>
    /\ conv = <<>>
    /\ first = <<>>
    /\ call = <<>>
    /\ pc = "start"
    /\ err = "none"
    /\ ExtractIdle

\* the join of `left` with the right side `right`; `call` keeps the right
\* side the merge was given
JoinInto(op, left, right, rsuffix) ==
    LET e == merge_error(left, right, "FORMATTED_POSTCODE")
    IN  /\ call' = <<[op |-> op, right |-> Some(right)]>>
        /\ err' = e
        /\ IF e # "none"
           THEN /\ pc' = "raised"
                /\ UNCHANGED <<heap, ret>>
           ELSE /\ pc' = "returned"
                /\ heap' = <<heap[1],
                             merge(left, right, "FORMATTED_POSTCODE", rsuffix)>>
                /\ ret' = 2

\* process_geocoding after the conversion: on success the join with the
\* de-duplicated reference and the count of matched records, otherwise the
\* result without a table
ProcessGeocoding ==
    /\ pc = "start"
    /\ IF success = "true"
       THEN LET right == drop_duplicates(ref, "FORMATTED_POSTCODE")
                e == merge_error(heap[1], right, "FORMATTED_POSTCODE")
                merged == merge(heap[1], right, "FORMATTED_POSTCODE",
                                "_GEOCODED_DATASET")
            IN  /\ JoinInto("process_geocoding", heap[1], right,
                            "_GEOCODED_DATASET")
                /\ results' =
                     IF e # "none" THEN results
                     ELSE <<[success |-> TRUE,
                             total_records |-> Len(heap[1].rows),
                             matched_records |-> matched_records(merged)]>>
       ELSE /\ call' = <<[op |-> "process_geocoding", right |-> None]>>
            /\ results' = <<[success |-> FALSE,
                             total_records |-> Len(heap[1].rows),
                             matched_records |-> 0]>>
            /\ pc' = "returned"
            /\ UNCHANGED <<heap, ret, err>>
    /\ UNCHANGED <<df, cfg, master, input_col, aic, variant, rng, cand, conv,
                   success, first, extract_vars, join_vars>>

\* the join of the main page: the same merge, whatever the flags of the rows
MainGeocode ==
    /\ pc = "start"
    /\ JoinInto("main", heap[1],
                drop_duplicates(ref, "FORMATTED_POSTCODE"), "_GEOCODED_DATASET")
    /\ UNCHANGED <<df, cfg, master, input_col, aic, variant, rng, cand,
                   results, conv, success, first, extract_vars, join_vars>>

\* enrich_open_postcode: the left side loses its ADDRESS, the right side is
\* merged as it is given
EnrichOpenPostcode ==
    /\ pc = "start"
    /\ IF drop_columns_error(heap[1], {"ADDRESS"}) # "none"
       THEN /\ call' = <<[op |-> "enrich_open_postcode", right |-> None]>>
            /\ err' = drop_columns_error(heap[1], {"ADDRESS"})
            /\ pc' = "raised"
            /\ UNCHANGED <<heap, ret>>
       ELSE JoinInto("enrich_open_postcode",
                     drop_columns(heap[1], {"ADDRESS"}), ref, "_2")
    /\ UNCHANGED <<df, cfg, master, input_col, aic, variant, rng, cand,
                   results, conv, success, first, extract_vars, join_vars>>

NextJoin ==
    \/ ProcessGeocoding
    \/ MainGeocode
    \/ EnrichOpenPostcode

SpecJoin == InitJoin /\ [][NextJoin]_vars

(* -------------------- process_geocoding, end to end -------------------- *)

\* return_postcode_master_list: the key column of the reference without
\* repeated values, a table of one column
return_postcode_master_list(t) ==
    [kind |-> "frame", ncols |-> 1,
     vals |-> {t.rows[j]["FORMATTED_POSTCODE"] : j \in 1..Len(t.rows)}]

\* Series.value_counts(): the number of rows per value, nulls left out
value_counts(series) ==
    [v \in {series[i] : i \in 1..Len(series)} \ {NaN} |->
        Cardinality({i \in 1..Len(series) : series[i] = v})]

\* the uploaded table: a postcode column and one more column, named NAME or
\* as a field of the reference is
GeocodeUserTables ==
    UNION {{[cols |-> {"postcode", o}, rows |-> r] :
              r \in [1..n -> {row \in [{"postcode", o} ->
                                 IdentifyCells("postcode") \cup {Str(<<"a">>)}] :
                                 /\ row[o] = Str(<<"a">>)
                                 /\ row["postcode"] \in IdentifyCells("postcode")}]} :
           <<o, n>> \in {"NAME", "ADDRESS", "LATITUDE"} \X (0..MaxRows)}

\* the geocoded reference: a key (null or a postcode, possibly repeated),
\* an address and a coordinate
GeocodeRefTables ==
    UNION {{[cols |-> {"FORMATTED_POSTCODE", "ADDRESS", "LATITUDE"},
             rows |-> r] :
              r \in [1..n -> {[FORMATTED_POSTCODE |-> k,
                               ADDRESS |-> Str(<<"p">>),
                               LATITUDE |-> Num(1, FALSE)] :
                                 k \in IdentifyCells("postcode")}]} :
           n \in 0..MaxRefRows}

\* the page loads the reference and a master list; the master list of the
\* catalog is the key column of a reference, with or without its null keys
InitGeocode ==
    /\ \E t \in GeocodeUserTables : heap = <<t>>
    /\ ref \in GeocodeRefTables
    /\ SessionIdle
    /\ master \in {return_postcode_master_list(ref),
                   return_postcode_master_list(
                       [ref EXCEPT !.rows = SelectSeq(ref.rows,
                           LAMBDA r : r["FORMATTED_POSTCODE"] # NaN)]),
                   IdentifyMaster}
    /\ df = 1
    /\ ret = 0
    /\ cfg = IDENTIFY_VALIDATION_CONFIG
    /\ input_col = ""
    /\ aic = APP_AUTO_IDENTIFY_CONFIG
    /\ variant = "classes"
    /\ rng = <<>>
    /\ cand = <<>>
    /\ results = <<>>
    /\ conv = NoConversion
    /\ success = "none"
    /\ first = <<>>
    /\ call = <<>>
    /\ pc = "start"
    /\ err = "none"
    /\ ExtractIdle

\* process_geocoding once auto_convert_postcodes has returned: the record
\* count of the uploaded table, then on success the join with the
\* de-duplicated reference and the count of matched records
GeocodeMerge ==
    /\ pc = "returned"
    /\ IF success = "true"
       THEN \E merged \in {merge(heap[ret],
                                 drop_duplicates(ref, "FORMATTED_POSTCODE"),
                                 "FORMATTED_POSTCODE", "_GEOCODED_DATASET")} :
                /\ heap' = <<heap[1], heap[ret], merged>>
                /\ call' = <<[op |-> "process_geocoding",
                              success |-> TRUE,
                              total_records |-> Len(heap[1].rows),
                              matched_records |-> matched_records(merged)]>>
                /\ pc' = "merged"
       ELSE /\ call' = <<[op |-> "process_geocoding",
                          success |-> FALSE,
                          total_records |-> Len(heap[1].rows),
                          matched_records |-> 0]>>
            /\ pc' = "failed"
            /\ UNCHANGED heap
    /\ UNCHANGED <<df, err, ret, cfg, master, input_col, aic, variant, rng,
                   cand, results, conv, success, first, extract_vars,
                   join_vars>>

\* render_data_table: the rows without a LATITUDE and, when there are any,
\* the counts of their reasons
RenderDataTable ==
    /\ pc = "merged"
    /\ LET non_merged == SelectSeq(heap[3].rows,
                                   LAMBDA r : r["LATITUDE"] = NaN)
       IN  call' = Append(call,
                    [op |-> "render_data_table",
                     non_merged |-> Len(non_merged),
                     wrong_stat |->
                        IF Len(non_merged) > 0
                        THEN Some(value_counts(
                                 [i \in 1..Len(non_merged) |->
                                     non_merged[i][
                                         "INCORRECT_INPUT_POSTCODE_REASON"]]))
                        ELSE None])
    /\ pc' = "rendered"
    /\ UNCHANGED <<heap, df, err, ret, cfg, master, input_col, aic, variant,
                   rng, cand, results, conv, success, first, extract_vars,
                   join_vars>>

NextGeocode ==
    \/ SetSampleCandidateDf
    \/ TestConvertAllColumns
    \/ SetBestPostcodeConversionConfig
    \/ CheckThresholdAndConvert
    \/ GeocodeMerge
    \/ RenderDataTable

SpecGeocode == InitGeocode /\ [][NextGeocode]_vars

(* ---------------------------- SessionManager --------------------------- *)

\* st.session_state and the dictionaries in it are functions on the keys
\* they hold; <<>> is the empty dictionary

MaxCalls == 6

initialize_kedro_unguarded(state) ==
    [k \in DOMAIN state \cup {"context", "catalog", "data"} |->
        CASE k = "context" -> "KedroContext"
          [] k = "catalog" -> "DataCatalog"
          [] k = "data" -> <<>>
          [] OTHER -> state[k]]

\* SessionManager.initialize_kedro: the context, the catalog and an empty
\* data dictionary, only when the session has no context yet
initialize_kedro(state) ==
    IF "context" \notin DOMAIN state
    THEN [k \in DOMAIN state \cup {"context", "catalog", "data"} |->
            CASE k = "context" -> "KedroContext"
              [] k = "catalog" -> "DataCatalog"
              [] k = "data" -> <<>>
              [] OTHER -> state[k]]
    ELSE state

\* SessionManager.load_data raises when the session has no catalog
load_data_error(state) ==
    IF "catalog" \in DOMAIN state THEN "none" ELSE "ValueError"

\* catalog.load: every load builds a new object, the n-th of the session
load_data(filename, n) == [dataset |-> filename, id |-> n]

\* the loads made by the calls so far
loads(filename) ==
    {i \in 1..Len(call) : call[i].loaded = Some(filename)}

InitSession ==
    /\ session_state = <<>>
    /\ ref = <<>>
    /\ ValidatorIdle
    /\ ExtractIdle
    /\ IdentifyIdle
    /\ pc = "session"
    /\ err = "none"

\* SessionManager(): __init__ calls initialize_kedro
NewSessionManager ==
    /\ pc = "session"
    /\ Len(call) < MaxCalls
    /\ session_state' = initialize_kedro(session_state)
    /\ call' = Append(call, [op |-> "SessionManager", loaded |-> None,
                             ret |-> None])
    /\ UNCHANGED <<heap, df, pc, err, ret, cfg, master, input_col, aic,
                   variant, rng, cand, results, conv, success, first,
                   extract_vars, ref>>

\* a getter of a constructed SessionManager: load and cache under key when
\* the data dictionary has no such key, then return the cached object
GetCached(op, key, filename) ==
    /\ pc = "session"
    /\ Len(call) < MaxCalls
    /\ \E i \in 1..Len(call) : call[i].op = "SessionManager"
    /\ IF key \notin DOMAIN session_state["data"]
       THEN IF load_data_error(session_state) # "none"
            THEN /\ err' = load_data_error(session_state)
                 /\ pc' = "raised"
                 /\ UNCHANGED <<session_state, call>>
            ELSE \E obj \in {load_data(filename,
                                Cardinality(UNION {loads(f) : f \in
                                    {"singapore_postcodes_masterlist",
                                     "singapore_postcodes_geocoded"}}) + 1)} :
                    /\ session_state' =
                          [session_state EXCEPT !["data"] =
                              [k \in DOMAIN @ \cup {key} |->
                                  IF k = key THEN obj ELSE @[k]]]
                    /\ call' = Append(call, [op |-> op,
                                             loaded |-> Some(filename),
                                             ret |-> Some(obj)])
                    /\ UNCHANGED <<pc, err>>
       ELSE /\ call' = Append(call, [op |-> op, loaded |-> None,
                                     ret |-> Some(session_state["data"][key])])
            /\ UNCHANGED <<session_state, pc, err>>
    /\ UNCHANGED <<heap, df, ret, cfg, master, input_col, aic, variant, rng,
                   cand, results, conv, success, first, extract_vars, ref>>

GetPostcodesMasterlist ==
    GetCached("get_postcodes_masterlist", "geocoded_postcodes_master_list",
              "singapore_postcodes_masterlist")

GetGeocodedPostcodes ==
    GetCached("get_geocoded_postcodes", "geocoded_postcodes",
              "singapore_postcodes_geocoded")

NextSession ==
    \/ NewSessionManager
    \/ GetPostcodesMasterlist
    \/ GetGeocodedPostcodes

SpecSession == InitSession /\ [][NextSession]_vars

(* ------------------- pipelines/data_processing/nodes ------------------- *)

LowerChars == <<"a", "b", "c", "d", "e", "f", "g", "h", "i", "j", "k", "l", "m",
                "n", "o", "p", "q", "r", "s", "t", "u", "v", "w", "x", "y", "z">>

UpperChars == <<"A", "B", "C", "D", "E", "F", "G", "H", "I", "J", "K", "L", "M",
                "N", "O", "P", "Q", "R", "S", "T", "U", "V", "W", "X", "Y", "Z">>

\* a + b on two cells of text: null when either is null
str_cat(a, b) ==
    IF a.k = "str" /\ b.k = "str" THEN Str(a.s \o b.s) ELSE NaN

\* Series.str.replace(",", "").str.upper(), one element
replace_upper(c) ==
    IF c.k # "str" THEN NaN
    ELSE LET kept == SelectSeq(c.s, LAMBDA ch : ch # ",")
         IN  Str([i \in 1..Len(kept) |->
                    IF \E l \in 1..26 : LowerChars[l] = kept[i]
                    THEN UpperChars[CHOOSE l \in 1..26 :
                                        LowerChars[l] = kept[i]]
                    ELSE kept[i]])

\* Series.str.replace(r" is located in Singapore.*$", "", regex=True), one
\* element: the text up to the first " is located in Singapore"
strip_located(c) ==
    IF c.k # "str" THEN NaN
    ELSE LET located == <<" ", "i", "s", " ", "l", "o", "c", "a", "t", "e",
                          "d", " ", "i", "n", " ", "S", "i", "n", "g", "a",
                          "p", "o", "r", "e">>
             starts == {i \in 1..Len(c.s) :
                          /\ i + Len(located) - 1 <= Len(c.s)
                          /\ SubSeq(c.s, i, i + Len(located) - 1) = located}
         IN  IF starts = {} THEN c
             ELSE Str(SubSeq(c.s, 1,
                        (CHOOSE i \in starts : \A j \in starts : i <= j) - 1))

SINGAPORE == Str(<<" ", "s", "i", "n", "g", "a", "p", "o", "r", "e", " ">>)

\* the assignments every format_* function starts with: they write into the
\* dictionary the caller passed
set_drop_and_hide(postcode_validation) ==
    [postcode_validation EXCEPT !.drop_incorrect = TRUE,
                                !.keep_validation_fields = FALSE]

\* format_onemap after its two assignments to postcode_validation
format_onemap(t, postcode_validation) ==
    LET sourced(v) ==
            Assign(Assign(Assign(v, "SOURCE", Broadcast(v, Str(<<"OneMap">>))),
                          "URL", Broadcast(v, Str(<<"https://www.onemap.gov.sg/apidocs/search">>))),
                   "URL_2", Broadcast(v, Str(<<"https://github.com/xuancong84/singapore-address-heatmap/blob/master/database.csv.gz">>)))
    IN  DropColumns(
            sourced(nodes_validate_and_format_postcodes(
                        t, "POSTAL", postcode_validation, NoMaster)),
            {"X", "Y"})

\* format_opendata after its two assignments to postcode_validation
format_opendata(t, postcode_validation) ==
    LET fp == postcode_validation.validation_field_names.formatted_postcode
        final_columns == {"ADDRESS", "ROAD_NAME", "LATITUDE", "LONGITUDE", fp,
                          "SOURCE", "URL"}
        shaped(v) ==
            [cols |-> final_columns,
             rows |-> [i \in 1..Len(v.rows) |->
                 [x \in final_columns |->
                     CASE x = "ADDRESS" ->
                            replace_upper(str_cat(str_cat(v.rows[i]["place_name"],
                                                          SINGAPORE),
                                                  v.rows[i][fp]))
                       [] x = "ROAD_NAME" -> replace_upper(v.rows[i]["place_name"])
                       [] x = "LATITUDE" -> v.rows[i]["latitude"]
                       [] x = "LONGITUDE" -> v.rows[i]["longitude"]
                       [] x = "SOURCE" -> Str(<<"opendatasoft">>)
                       [] x = "URL" -> Str(<<"https://public.opendatasoft.com/explore/dataset/geonames-postal-code/table/?refine.country_code=SG">>)
                       [] OTHER -> v.rows[i][x]]]]
    IN  shaped(nodes_validate_and_format_postcodes(
                   [t EXCEPT !.rows = SelectSeq(t.rows,
                        LAMBDA r : r["country_code"] = Str(<<"S", "G">>))],
                   "postal_code", postcode_validation, NoMaster))

\* format_postcodebase after its two assignments to postcode_validation
format_postcodebase(t, postcode_validation) ==
    LET fp == postcode_validation.validation_field_names.formatted_postcode
        final_columns == {"ADDRESS", fp, "SOURCE", "URL"}
        shaped(v) ==
            [cols |-> final_columns,
             rows |-> [i \in 1..Len(v.rows) |->
                 [x \in final_columns |->
                     CASE x = "ADDRESS" ->
                            replace_upper(
                                str_cat(str_cat(strip_located(v.rows[i]["address"]),
                                                SINGAPORE),
                                        v.rows[i][fp]))
                       [] x = "SOURCE" -> Str(<<"Postcodebase">>)
                       [] x = "URL" -> Str(<<"https://sgp.postcodebase.com/all">>)
                       [] OTHER -> v.rows[i][x]]]]
    IN  shaped(nodes_validate_and_format_postcodes(
                   t, "postcode", postcode_validation, NoMaster))

\* the raw tables of the three sources
SourceTables(cols, cells) ==
    UNION {{[cols |-> cols, rows |-> r] :
              r \in [1..n -> {row \in [cols -> UNION {cells[c] : c \in cols}] :
                                 \A c \in cols : row[c] \in cells[c]}]} :
           n \in 0..MaxRows}

OnemapTables ==
    SourceTables({"POSTAL", "X", "Y"},
                 [c \in {"POSTAL", "X", "Y"} |->
                     IF c = "POSTAL" THEN IdentifyCells("postcode")
                     ELSE {Num(1, FALSE)}])

OpendataTables ==
    SourceTables({"country_code", "postal_code", "place_name", "latitude",
                  "longitude"},
                 [c \in {"country_code", "postal_code", "place_name",
                         "latitude", "longitude"} |->
                     CASE c = "country_code" ->
                            {Str(<<"S", "G">>), Str(<<"M", "Y">>)}
                       [] c = "postal_code" -> IdentifyCells("postcode")
                       [] c = "place_name" -> {Str(<<"a", ",", "b">>)}
                       [] OTHER -> {Num(1, FALSE)}])

PostcodebaseTables ==
    SourceTables({"address", "postcode"},
                 [c \in {"address", "postcode"} |->
                     IF c = "postcode" THEN IdentifyCells("postcode")
                     ELSE {Str(<<"a">>),
                           Str(<<"a", " ", "i", "s", " ", "l", "o", "c", "a",
                                 "t", "e", "d", " ", "i", "n", " ", "S", "i",
                                 "n", "g", "a", "p", "o", "r", "e", " ",
                                 "x">>)}])

\* a caller holds one postcode_validation dictionary (cfg) and a raw table
InitFormat ==
    /\ \E t \in OnemapTables \cup OpendataTables \cup PostcodebaseTables :
          heap = <<t>>
    /\ cfg \in {[VALIDATION_DEFAULTS EXCEPT !.drop_incorrect = d,
                                            !.keep_validation_fields = kv] :
                   d \in BOOLEAN, kv \in BOOLEAN}
    /\ df = 1
    /\ ret = 0
    /\ master = NoMaster
    /\ input_col = ""
    /\ ExtractIdle /\ IdentifyIdle /\ JoinIdle
    /\ pc = "start"
    /\ err = "none"

\* a format_* function called with the caller's dictionary: the dictionary
\* is written first, then the table is validated and shaped (formatted is
\* the table the function returns)
FormatSource(op, incol, formatted) ==
    /\ pc = "start"
    /\ incol \in heap[1].cols
    /\ input_col' = incol
    /\ call' = <<[op |-> op, postcode_validation |-> cfg]>>
    /\ cfg' = set_drop_and_hide(cfg)
    /\ \E e \in {nodes_validate_error(heap[1], incol, cfg', NoMaster)} :
          /\ err' = e
          /\ IF e # "none"
             THEN pc' = "raised" /\ UNCHANGED <<heap, ret>>
             ELSE /\ heap' = Append(heap, formatted)
                  /\ ret' = Len(heap) + 1
                  /\ pc' = "formatted"
    /\ UNCHANGED <<df, master, aic, variant, rng, cand, results, conv,
                   success, first, extract_vars, join_vars>>

FormatOnemap ==
    FormatSource("format_onemap", "POSTAL",
                 format_onemap(heap[1], set_drop_and_hide(cfg)))

FormatOpendata ==
    FormatSource("format_opendata", "postal_code",
                 format_opendata(heap[1], set_drop_and_hide(cfg)))

FormatPostcodebase ==
    FormatSource("format_postcodebase", "postcode",
                 format_postcodebase(heap[1], set_drop_and_hide(cfg)))

\* the caller validates a table with the same dictionary afterwards
ValidateWithSameConfig ==
    /\ pc = "formatted"
    /\ \E e \in {nodes_validate_error(heap[1], input_col, cfg, NoMaster)} :
          /\ err' = e
          /\ IF e # "none"
             THEN pc' = "raised" /\ UNCHANGED <<heap, ret>>
             ELSE /\ heap' = Append(heap,
                                nodes_validate_and_format_postcodes(
                                    heap[1], input_col, cfg, NoMaster))
                  /\ ret' = Len(heap) + 1
                  /\ pc' = "validated"
    /\ UNCHANGED <<df, cfg, master, input_col, aic, variant, rng, cand,
                   results, conv, success, first, call, extract_vars,
                   join_vars>>

NextFormat ==
    \/ FormatOnemap
    \/ FormatOpendata
    \/ FormatPostcodebase
    \/ ValidateWithSameConfig

SpecFormat == InitFormat /\ [][NextFormat]_vars

(* ----------------- the name of the input column ------------------------ *)

\* the input column under any name, or under the name of a derived field
\* (a user column called FORMATTED_POSTCODE converted DIRECT)
InitInputName ==
    /\ input_col \in {"postcode", "POSTAL", "FORMATTED_POSTCODE",
                      "INCORRECT_INPUT_POSTCODE_REASON"}
    /\ \E t \in TablesWith(input_col, "ID") : heap = <<t>>
    /\ cfg \in {[VALIDATION_DEFAULTS EXCEPT !.range.int = r] : r \in Ranges}
    /\ master \in {NoMaster, IdentifyMaster}
    /\ df = 1
    /\ pc = "start"
    /\ err = "none"
    /\ ret = 0
    /\ ExtractIdle /\ IdentifyIdle /\ JoinIdle

\* validate_and_format_postcodes of nodes.py on the input column, as
\* convert_column calls it for the DIRECT method
ValidateInputColumn ==
    /\ pc = "start"
    /\ \E e \in {nodes_validate_error(heap[1], input_col, cfg, master)} :
          /\ err' = e
          /\ IF e # "none"
             THEN pc' = "raised" /\ UNCHANGED <<heap, ret>>
             ELSE /\ heap' = <<heap[1],
                               nodes_validate_and_format_postcodes(
                                   heap[1], input_col, cfg, master)>>
                  /\ ret' = 2
                  /\ pc' = "validated"
    /\ UNCHANGED <<df, cfg, master, input_col, extract_vars, identify_vars,
                   join_vars>>

NextInputName ==
    \/ Parse
    \/ ValidateInputColumn

SpecInputName == InitInputName /\ [][NextInputName]_vars

(* ------------------------------ claims -------------------------------- *)

FLAG == "CORRECT_INPUT_POSTCODE"

REASON == "INCORRECT_INPUT_POSTCODE_REASON"

FORMATTED == "FORMATTED_POSTCODE"

\* the working table has the three derived columns
HasDerived == pc \in {"parsed", "integer", "range", "formatted", "master"}

DefaultPostProcessing ==
    /\ cfg.drop_incorrect = FALSE
    /\ cfg.keep_validation_fields = TRUE
    /\ cfg.keep_formatted_postcode_field = TRUE

Rows(t) == 1..Len(t.rows)

SixDigits(c) == c.k = "str" /\ Len(c.s) = 6 /\ AllDigits(c.s)

\* C1: after validate_and_format_postcodes with the default configuration,
\* with or without a master reference, in every row of the result: the flag
\* is true <=> the reason is absent <=> the formatted postcode is non-null.
C1_FlagReasonFormatted ==
    (pc = "done" /\ cfg = VALIDATION_DEFAULTS) =>
        \A i \in Rows(heap[ret]) :
            LET r == heap[ret].rows[i]
            IN  /\ (r[FLAG] = Bool(TRUE)) <=> isna(r[REASON])
                /\ isna(r[REASON]) <=> notna(r[FORMATTED])

\* What the code keeps of C1: flag true <=> reason absent; a valid row has a
\* formatted postcode; a formatted postcode on an invalid row is a row the
\* master stage rejected.
C1_AsImplemented ==
    (pc = "done" /\ cfg = VALIDATION_DEFAULTS) =>
        \A i \in Rows(heap[ret]) :
            LET r == heap[ret].rows[i]
            IN  /\ (r[FLAG] = Bool(TRUE)) <=> isna(r[REASON])
                /\ r[FLAG] = Bool(TRUE) => notna(r[FORMATTED])
                /\ (r[FLAG] = Bool(FALSE) /\ notna(r[FORMATTED])) =>
                       r[REASON] = NOT_IN_MASTER_DATASET

\* C2: from one validation stage to the next, a row that has a reason keeps
\* that reason, and a row whose flag is false keeps a false flag.
C2_StagesOnlyDowngrade ==
    [][(HasDerived /\ pc' \in {"integer", "range", "formatted", "master"}) =>
          \A i \in Rows(heap[df]) :
              LET r == heap[df].rows[i]
                  q == heap'[df'].rows[i]
              IN  /\ Len(heap'[df'].rows) = Len(heap[df].rows)
                  /\ notna(r[REASON]) => q[REASON] = r[REASON]
                  /\ r[FLAG] = Bool(FALSE) => q[FLAG] = Bool(FALSE)]_vars

\* C2 witness: the master stage has run over a table holding a row that an
\* earlier stage rejected and a row the master stage itself rejected.
C2_Witness ==
    /\ pc = "master"
    /\ \E i \in Rows(heap[df]) : heap[df].rows[i][REASON] = NOT_INTEGER
    /\ \E i \in Rows(heap[df]) :
           heap[df].rows[i][REASON] = NOT_IN_MASTER_DATASET

\* C3: with a well-formed master reference the validator of
\* pipelines/data_validation/nodes.py never raises, whatever the cells are.
C3_NeverRaises == err = "none"

\* the reference classification of C4
C4_Reference(c, lo, hi) ==
    LET n == to_numeric(c)
    IN  IF c.k = "nan" THEN NO_INPUT_PROVIDED
        ELSE IF n.k # "num" THEN NOT_NUMERIC
        ELSE IF n.f THEN NOT_INTEGER
        ELSE IF n.v < lo \/ n.v > hi THEN OUT_OF_RANGE
        ELSE NaN

C5_SixDigitsOrNull ==
    pc = "formatted" =>
        \A i \in Rows(heap[df]) :
            LET r == heap[df].rows[i]
            IN  IF r[FLAG] = Bool(TRUE) THEN SixDigits(r[FORMATTED])
                ELSE isna(r[FORMATTED])

\* What the code keeps of C5: the same, for ranges inside [0, 999999].
C5_WithinSixDigitRange ==
    (pc = "formatted" /\ cfg.range.int[1] >= 0 /\ cfg.range.int[2] <= 999999) =>
        \A i \in Rows(heap[df]) :
            LET r == heap[df].rows[i]
            IN  IF r[FLAG] = Bool(TRUE) THEN SixDigits(r[FORMATTED])
                ELSE isna(r[FORMATTED])

C7_EmptyStringNoInput ==
    pc = "parsed" =>
        \A i \in Rows(heap[df]) :
            heap[1].rows[i][input_col] = Str(<<>>) =>
                /\ heap[df].rows[i][REASON] = NO_INPUT_PROVIDED
                /\ heap[df].rows[i][FLAG] = Bool(FALSE)

\* C8 as stated: check_in_master_dataset raises ValueError exactly when the
\* master reference is a table of more than one column, and then returns
\* no table.
C8_RaisesIffMoreThanOneColumn ==
    /\ (pc = "raised" /\ err = "ValueError") =>
           /\ master.kind = "frame" /\ master.ncols > 1
           /\ ret = 0
    /\ pc = "master" => ~(master.kind = "frame" /\ master.ncols > 1)

\* C8: check_in_master_dataset raises ValueError exactly when the master
\* reference is a table whose number of columns is not one (more than one,
\* or none); a one-column table and a series are accepted; when it raises no
\* table is returned.
C8_RaisesIffNotOneColumn ==
    /\ (pc = "raised" /\ err = "ValueError") =>
           /\ master.kind = "frame" /\ master.ncols # 1
           /\ ret = 0
    /\ pc = "master" =>
           \/ master.kind = "series"
           \/ master.kind = "frame" /\ master.ncols = 1

\* C8 witness: the check raised on a table without columns.
C8_Witness ==
    pc = "raised" /\ err = "ValueError" /\ master.ncols = 0 /\ ret = 0

\* C9 as stated: with the default configuration the returned table is a new
\* table holding every input row once, in order, every original column
\* unchanged, plus the three derived columns; the caller's table is never
\* changed.
C9_EveryOriginalColumnUnchanged ==
    [][/\ heap'[1] = heap[1]
       /\ (pc' = "done" /\ cfg = VALIDATION_DEFAULTS) =>
            /\ ret' # 1
            /\ heap'[ret'].cols = heap[1].cols \cup {FLAG, REASON, FORMATTED}
            /\ Len(heap'[ret'].rows) = Len(heap[1].rows)
            /\ \A i \in Rows(heap[1]) : \A x \in heap[1].cols :
                 heap'[ret'].rows[i][x] = heap[1].rows[i][x]]_vars

\* C9: with the default configuration the returned table is a new table
\* holding every input row once, in order, plus the three derived columns;
\* every original column not named like a derived field is unchanged (an
\* original column with a derived field's name is replaced by that field);
\* the caller's table is never changed.
C9_NewTableCallerUntouched ==
    [][/\ heap'[1] = heap[1]
       /\ (pc' = "done" /\ cfg = VALIDATION_DEFAULTS) =>
            /\ ret' # 1
            /\ heap'[ret'].cols = heap[1].cols \cup {FLAG, REASON, FORMATTED}
            /\ Len(heap'[ret'].rows) = Len(heap[1].rows)
            /\ \A i \in Rows(heap[1]) :
                 \A x \in heap[1].cols \ {FLAG, REASON, FORMATTED} :
                     heap'[ret'].rows[i][x] = heap[1].rows[i][x]]_vars

\* C9 witness: a finished default run over a table of two rows that came
\* with a column named like the formatted-postcode field; the caller's
\* table still numbers its rows in that column.
C9_Witness ==
    /\ pc = "done" /\ cfg = VALIDATION_DEFAULTS
    /\ ret = 2
    /\ Len(heap[1].rows) = 2
    /\ heap[1].cols = {FORMATTED, input_col}
    /\ heap[1].rows[2][FORMATTED] = Num(2, FALSE)
    /\ heap[ret].rows[2][input_col] = heap[1].rows[2][input_col]

\* C10: drop_incorrect keeps exactly the rows whose flag is true, in order;
\* keep_validation_fields = false removes the flag and reason columns;
\* keep_formatted_postcode_field = false removes the formatted column; each
\* option acts whatever the other two are, and the defaults drop nothing.
C10_PostProcessing ==
    [][pc' = "done" =>
         LET pre  == heap[df]
             post == heap'[ret']
             kept == IF cfg.drop_incorrect
                     THEN SelectSeq(pre.rows, LAMBDA r : r[FLAG] = Bool(TRUE))
                     ELSE pre.rows
             gone == (IF cfg.keep_validation_fields THEN {}
                      ELSE {FLAG, REASON})
                     \cup (IF cfg.keep_formatted_postcode_field THEN {}
                           ELSE {FORMATTED})
         IN  /\ post.cols = pre.cols \ gone
             /\ Len(post.rows) = Len(kept)
             /\ \A i \in 1..Len(kept) :
                  /\ DOMAIN post.rows[i] = post.cols
                  /\ \A x \in post.cols : post.rows[i][x] = kept[i][x]
             /\ DefaultPostProcessing => post = pre]_vars

\* C10 witness: a run that dropped an invalid row and the flag and reason
\* columns, and kept a valid row with its formatted postcode.
C10_Witness ==
    /\ pc = "done"
    /\ cfg.drop_incorrect /\ ~cfg.keep_validation_fields
    /\ cfg.keep_formatted_postcode_field
    /\ Len(heap[1].rows) = 2
    /\ Len(heap[ret].rows) = 1
    /\ heap[ret].cols = {"ID", input_col, FORMATTED}
    /\ heap[ret].rows[1]["ID"] = heap[1].rows[2]["ID"]
    /\ heap[ret].rows[1][input_col] = heap[1].rows[2][input_col]

(* ----------------------------- regex_extract -------------------------- *)

\* the characters i..j of s are a match of pattern p
IsMatchAt(s, i, j, p) ==
    /\ 1 <= i /\ i <= j /\ j <= Len(s)
    /\ (j - i + 1) \in p.lo..p.hi
    /\ \A k \in i..j : IsDigit(s[k])
    /\ (i = 1 \/ ~IsDigit(s[i - 1]))
    /\ (j = Len(s) \/ ~IsDigit(s[j + 1]))

\* r is the first match of p in the text s, or null when s has no match
IsFirstMatchOrNull(r, s, p) ==
    IF \E i, j \in 1..Len(s) : IsMatchAt(s, i, j, p)
    THEN \E i, j \in 1..Len(s) :
            /\ IsMatchAt(s, i, j, p)
            /\ r = Str(SubSeq(s, i, j))
            /\ \A i2, j2 \in 1..Len(s) : IsMatchAt(s, i2, j2, p) => i <= i2
    ELSE r = NaN

\* C11: regex_extract returns, for every pattern (with or without
\* capture-group parentheses), one entry per input cell in row order: the
\* first match of the pattern in the cell's text, or null when there is none.
C11_FirstMatchOrNull ==
    pc # "start" =>
        /\ pc = "extracted"
        /\ Len(extracted) = Len(candidates)
        /\ \A i \in 1..Len(candidates) :
              IF candidates[i].k = "str"
              THEN IsFirstMatchOrNull(extracted[i], candidates[i].s,
                                      aic.regex_pattern)
              ELSE candidates[i].k = "nan" => extracted[i] = NaN

\* what regex_extract does: it raises exactly for a pattern without a
\* capture group, and returns the first matches otherwise
C11_AsImplemented ==
    /\ pc = "raised" => aic.regex_pattern.groups = 0 /\ err = "ValueError"
    /\ pc = "extracted" =>
        /\ aic.regex_pattern.groups > 0
        /\ Len(extracted) = Len(candidates)
        /\ \A i \in 1..Len(candidates) :
              candidates[i].k = "str" =>
                  IsFirstMatchOrNull(extracted[i], candidates[i].s,
                                     aic.regex_pattern)

(* ---------------------- Identifier and Converter ---------------------- *)

\* a >= b on rates
RateGE(a, b) == RateGT(a, b) \/ RateEQ(a, b)

\* the entries of a ranked list with the given column and method
EntriesOf(r, col, m) ==
    {i \in 1..Len(r) : r[i].column = col /\ r[i].method = m}

C13_SameSampleSameResults ==
    (first # <<>> /\ pc = "tested") =>
        /\ cand = first[1].cand
        /\ results = first[1].results

\* the runs agree where the draw is seeded or the whole table is taken
C13_SeededRunsAgree ==
    (/\ first # <<>> /\ pc = "tested"
     /\ \/ variant = "functions"
        \/ aic.seed # None
        \/ aic.sample_size = None) =>
        /\ cand = first[1].cand
        /\ results = first[1].results

\* C14: failure is reported if and only if the top entry's rate is below
\* success_threshold (a rate equal to the threshold is accepted); the full
\* ranked list is returned in both outcomes.
C14_FailureIffBelowThreshold ==
    pc = "returned" =>
        /\ success = "false"
              <=> RateLT(results[1].rate, aic.success_threshold[1])
        /\ Len(results) = 2 * Cardinality(heap[1].cols)

\* the function pipeline reports failure exactly below the threshold
C14_FunctionsFailureIffBelow ==
    (variant = "functions" /\ pc = "returned") =>
        (success = "false"
            <=> RateLT(results[1].rate, aic.success_threshold[1]))

\* every rate of the ranked list is below the threshold
AllBelowThreshold ==
    /\ results # <<>>
    /\ \A i \in 1..Len(results) :
          RateLT(results[i].rate, aic.success_threshold[1])

\* C15: auto_convert_postcodes on a table with no rows, or with every rate
\* below the threshold, does not raise: it returns the caller's table
\* unchanged with success False and the ranked results, and convert_column
\* is not run.
C15_NoRowsOrAllBelow ==
    /\ (variant = "classes" /\ Len(heap[1].rows) = 0) =>
          /\ pc # "raised"
          /\ ~conv.converted
          /\ pc = "returned" => ret = 1 /\ success = "false"
    /\ (variant = "classes" /\ AllBelowThreshold) =>
          /\ pc # "raised"
          /\ ~conv.converted
          /\ pc = "returned" => ret = 1 /\ success = "false"

\* the converted table keeps the rows and the original columns of the
\* caller's table and has the validation fields, and the extracted column
\* when the method is INDIRECT
ConvertedKeepsTable ==
    LET out == heap[ret]
        names == cfg.validation_field_names
    IN  /\ Len(out.rows) = Len(heap[1].rows)
        /\ heap[1].cols \subseteq out.cols
        /\ \A i \in 1..Len(out.rows) : \A col \in heap[1].cols :
              out.rows[i][col] = heap[1].rows[i][col]
        /\ {names.correct_input_flag, names.incorrect_reason,
            names.formatted_postcode} \subseteq out.cols
        /\ conv.method = "INDIRECT" => names.extracted_postcode \in out.cols

\* C16: the Converter runs on the full table: the converted table has one
\* row per input row, every original column with its original values, the
\* three validation fields and, for INDIRECT, the extracted-postcode column.
C16_ConvertedKeepsTable ==
    (pc = "returned" /\ conv.converted) => ConvertedKeepsTable

\* ConvertPostcodes.convert_column keeps the table
C16_ClassesConverterKeepsTable ==
    (variant = "classes" /\ pc = "returned" /\ conv.converted) =>
        ConvertedKeepsTable

(* ------------------------ Converter configuration --------------------- *)

\* the entry set_best_postcode_conversion_config selects
SelectedEntry == sort_values(results)[1]

\* the entry carries no pattern: the key is missing or None, or the value
\* is the null NaN
NoPattern(e) == e.regex = None \/ e.regex = Some(NAN_AS_PATTERN)

LastCall == call[1]

\* C17: configuring the Converter raises ValueError when the selected
\* column is not in the table, when the method is neither DIRECT nor
\* INDIRECT, and when the method is INDIRECT and the selected entry has no
\* regex pattern (missing or null).
C17_ConfigurationErrors ==
    (/\ call # <<>> /\ LastCall.op = "set_best" /\ results # <<>>
     /\ \/ SelectedEntry.column \notin heap[1].cols
        \/ SelectedEntry.method \notin {"DIRECT", "INDIRECT"}
        \/ SelectedEntry.method = "INDIRECT" /\ NoPattern(SelectedEntry))
    => err = "ValueError"

\* the configuration raises exactly for an absent column, an unknown
\* method, and INDIRECT with a pattern that is None
C17_AsImplemented ==
    (call # <<>> /\ LastCall.op = "set_best" /\ results # <<>>) =>
        (err = "ValueError" <=>
            \/ SelectedEntry.column \notin heap[1].cols
            \/ SelectedEntry.method \notin {"DIRECT", "INDIRECT"}
            \/ SelectedEntry.method = "INDIRECT" /\ SelectedEntry.regex = None)

\* C18: set_postcode_conversion_config(column, method, regex_pattern)
\* selects the ranked row of the named column, overrides its method and
\* pattern with the given ones and completes without error when the column
\* exists in the table.
C18_CustomConfigCompletes ==
    (/\ call # <<>> /\ LastCall.op = "set_config"
     /\ LastCall.column \in heap[1].cols
     /\ \E i \in 1..Len(results) : results[i].column = LastCall.column)
    => /\ err = "none"
       /\ conv.set
       /\ conv.column = LastCall.column
       /\ LastCall.method # None => conv.method = LastCall.method[1]
       /\ LastCall.regex # None => conv.regex = LastCall.regex

\* set_postcode_conversion_config never completes
C18_AsImplemented ==
    (call # <<>> /\ LastCall.op = "set_config") =>
        err \in {"TypeError", "KeyError", "IndexError"}

\* the calls of the geocode join of the application
GeocodeOps == {"process_geocoding", "main"}

\* the geocode join was called and reached its merge
GeocodeJoined == call # <<>> /\ call[1].op \in GeocodeOps /\ call[1].right # None

\* the columns the merge added to the converted table
GeoFields == heap[2].cols \ heap[1].cols

\* the merged table holds the rows of the converted table, each once and in
\* order, with their original columns
RowsPreserved ==
    /\ heap[1].cols \subseteq heap[2].cols
    /\ Len(heap[2].rows) = Len(heap[1].rows)
    /\ \A i \in 1..Len(heap[1].rows) : \A c \in heap[1].cols :
          heap[2].rows[i][c] = heap[1].rows[i][c]

\* the postcodes that are keys of the reference
ReferencePostcodes ==
    {ref.rows[j]["FORMATTED_POSTCODE"] : j \in 1..Len(ref.rows)} \ {NaN}

\* C19: the geocode join returns, for any reference table, a table that
\* holds every row of the converted table once and in order with its
\* original columns, and a row whose formatted postcode is null or is no
\* postcode of the reference has every geo field null.
C19_LeftJoinPreservesRows ==
    GeocodeJoined =>
        /\ pc = "returned" /\ err = "none" /\ ret = 2
        /\ RowsPreserved
        /\ \A i \in 1..Len(heap[1].rows) :
              heap[1].rows[i]["FORMATTED_POSTCODE"] \notin ReferencePostcodes
                  => \A c \in GeoFields : heap[2].rows[i][c] = NaN

\* as implemented the rows are preserved, and the geo fields are null in
\* the rows whose key, null or not, equals no key of the reference
C19_AsImplemented ==
    GeocodeJoined =>
        /\ pc = "returned" /\ err = "none" /\ ret = 2
        /\ RowsPreserved
        /\ \A i \in 1..Len(heap[1].rows) :
              (\A j \in 1..Len(ref.rows) :
                  ref.rows[j]["FORMATTED_POSTCODE"]
                      # heap[1].rows[i]["FORMATTED_POSTCODE"])
                  => \A c \in GeoFields : heap[2].rows[i][c] = NaN

\* a table with two rows of one key
HasDuplicateKey(t) ==
    \E i, j \in 1..Len(t.rows) :
        i # j /\ t.rows[i]["FORMATTED_POSTCODE"] = t.rows[j]["FORMATTED_POSTCODE"]

\* C20: a join whose reference holds a duplicate postcode key raises and
\* returns no result.
C20_RaisesOnDuplicateReference ==
    (call # <<>> /\ call[1].right # None /\ HasDuplicateKey(ref))
        => pc = "raised" /\ err = "MergeError" /\ ret = 0

\* C20 (amended): the merge raises, and returns nothing, exactly when the
\* right side handed to it holds a duplicate key; enrich_open_postcode hands
\* it the reference as given, the geocode join of the application the
\* de-duplicated reference, and so never raises.
C20_RaisesOnDuplicateRightSide ==
    (call # <<>> /\ call[1].right # None) =>
        /\ HasDuplicateKey(call[1].right[1])
              <=> (pc = "raised" /\ err = "MergeError" /\ ret = 0)
        /\ call[1].op = "enrich_open_postcode" => call[1].right[1] = ref
        /\ call[1].op \in GeocodeOps =>
              /\ call[1].right[1] = drop_duplicates(ref, "FORMATTED_POSTCODE")
              /\ pc = "returned" /\ err = "none"

\* enrich_open_postcode was given a reference with a repeated key and raised
C20_Witness ==
    /\ call # <<>>
    /\ call[1].op = "enrich_open_postcode"
    /\ call[1].right # None
    /\ HasDuplicateKey(ref)
    /\ err = "MergeError"

\* the first row of the reference with the key of row i of the converted
\* table, 0 when there is none
FirstReferenceRow(i) ==
    LET hits == {j \in 1..Len(ref.rows) :
                    ref.rows[j]["FORMATTED_POSTCODE"]
                        = heap[1].rows[i]["FORMATTED_POSTCODE"]}
    IN  IF hits = {} THEN 0
        ELSE CHOOSE j \in hits : \A k \in hits : j <= k

\* C21: after the geocode join every uploaded column is in the merged table
\* under its own name with its own values, and a reference column whose name
\* an uploaded column has (the key apart) is there under that name followed
\* by _GEOCODED_DATASET, with the values of the reference.
C21_CollisionSuffixesReference ==
    (GeocodeJoined /\ pc = "returned") =>
        /\ \A c \in heap[1].cols :
              /\ c \in heap[2].cols
              /\ \A i \in 1..Len(heap[1].rows) :
                    heap[2].rows[i][c] = heap[1].rows[i][c]
        /\ \A a \in (ref.cols \ {"FORMATTED_POSTCODE"}) \cap heap[1].cols :
              /\ (a \o "_GEOCODED_DATASET") \in heap[2].cols
              /\ \A i \in 1..Len(heap[1].rows) :
                    heap[2].rows[i][a \o "_GEOCODED_DATASET"] =
                        IF FirstReferenceRow(i) = 0 THEN NaN
                        ELSE ref.rows[FirstReferenceRow(i)][a]

\* an uploaded ADDRESS met the ADDRESS of the reference in a matched row
C21_Witness ==
    /\ GeocodeJoined /\ pc = "returned"
    /\ "ADDRESS" \in heap[1].cols
    /\ \E i \in 1..Len(heap[1].rows) :
          /\ FirstReferenceRow(i) # 0
          /\ heap[2].rows[i]["ADDRESS_GEOCODED_DATASET"]
                 # heap[2].rows[i]["ADDRESS"]


\* the name under which a field of the reference appears in the merged table
ReferenceSide(name) ==
    IF name \in heap[2].cols THEN name \o "_GEOCODED_DATASET" ELSE name

RECURSIVE SumOver(_, _)
SumOver(f, S) ==
    IF S = {} THEN 0
    ELSE LET x == CHOOSE y \in S : TRUE IN f[x] + SumOver(f, S \ {x})

\* the sum of the failure-reason histogram shown with the merged table
HistogramSum ==
    IF call[2].wrong_stat = None THEN 0
    ELSE SumOver(call[2].wrong_stat[1], DOMAIN call[2].wrong_stat[1])

\* C22: for any uploaded table, also one with a column named ADDRESS or
\* LATITUDE, total_records is the number of uploaded rows, matched_records is
\* the number of merged rows whose reference-side coordinate is non-null, and
\* the failure-reason histogram over the unmatched rows sums to
\* total_records - matched_records
C22_Statistics ==
    (pc \in {"merged", "rendered"}) =>
        /\ call[1].total_records = Len(heap[1].rows)
        /\ call[1].matched_records =
              Cardinality({i \in 1..Len(heap[3].rows) :
                              heap[3].rows[i][ReferenceSide("LATITUDE")] # NaN})
        /\ (pc = "rendered") =>
              HistogramSum = call[1].total_records - call[1].matched_records


\* C29: end to end in process_geocoding, when the master list used for
\* validation is exactly the set of non-null postcode keys of the geocode
\* reference, a merged row has non-null reference-side geo fields if and only
\* if its correct-input flag is true, every unmatched row carries a reason
\* and every matched row carries none
C29_MatchedIffFlagged ==
    (pc = "merged" /\ master.vals = ReferencePostcodes) =>
        \A i \in 1..Len(heap[3].rows) :
            LET matched ==
                    /\ heap[3].rows[i][ReferenceSide("LATITUDE")] # NaN
                    /\ heap[3].rows[i][ReferenceSide("ADDRESS")] # NaN
            IN  /\ matched <=> Truthy(heap[3].rows[i][FLAG])
                /\ matched <=> (heap[3].rows[i][REASON] = NaN)

\* the same, for a reference that holds no null key
C29_AsImplemented ==
    (/\ pc = "merged"
     /\ master.vals = ReferencePostcodes
     /\ \A j \in 1..Len(ref.rows) : ref.rows[j]["FORMATTED_POSTCODE"] # NaN) =>
        \A i \in 1..Len(heap[3].rows) :
            LET matched ==
                    /\ heap[3].rows[i][ReferenceSide("LATITUDE")] # NaN
                    /\ heap[3].rows[i][ReferenceSide("ADDRESS")] # NaN
            IN  /\ matched <=> Truthy(heap[3].rows[i][FLAG])
                /\ matched <=> (heap[3].rows[i][REASON] = NaN)


\* the getter calls made so far on the dataset cached under key
GetterCalls(op) == {i \in 1..Len(call) : call[i].op = op}

\* the getter op, caching filename under key, loaded at most once, returns
\* to every call the object of its first call, and the cache still holds it
CachedOnce(op, key, filename) ==
    /\ Cardinality(loads(filename)) <= 1
    /\ \A i \in GetterCalls(op) :
          /\ \A j \in GetterCalls(op) : call[j].ret = call[i].ret
          /\ call[i].ret[1].dataset = filename
          /\ key \in DOMAIN session_state["data"]
          /\ session_state["data"][key] = call[i].ret[1]

\* C23: within one session, for any sequence of SessionManager constructions
\* and calls of get_postcodes_masterlist and get_geocoded_postcodes, each of
\* the two reference datasets is loaded from the catalog at most once, every
\* later call returns the object cached by the first call, the two datasets
\* are cached under distinct keys, and constructing another SessionManager
\* never clears the cache
C23_LoadedOncePerSession ==
    /\ CachedOnce("get_postcodes_masterlist",
                  "geocoded_postcodes_master_list",
                  "singapore_postcodes_masterlist")
    /\ CachedOnce("get_geocoded_postcodes", "geocoded_postcodes",
                  "singapore_postcodes_geocoded")
    /\ pc = "session" /\ err = "none"

\* both datasets were loaded, a SessionManager was constructed after that and
\* both getters were called again
C23_Witness ==
    \E i, j, k, l, m \in 1..Len(call) :
        /\ i < k /\ j < k /\ k < l /\ k < m
        /\ call[i].loaded = Some("singapore_postcodes_masterlist")
        /\ call[j].loaded = Some("singapore_postcodes_geocoded")
        /\ call[k].op = "SessionManager"
        /\ call[l].op = "get_postcodes_masterlist"
        /\ call[m].op = "get_geocoded_postcodes"


\* r is the number k / n of [0,1], with n the number of sampled rows where
\* there are any
UnitRate(r) ==
    /\ r[2] > 0 /\ 0 <= r[1] /\ r[1] <= r[2]
    /\ Len(cand.rows) > 0 => r[2] = Len(cand.rows)

\* C24: every entry of the ranked list has a success rate that is a number
\* in [0,1], the number of sampled rows flagged correct over the number of
\* sampled rows, for every input table including a table with zero rows
C24_RateInUnitInterval ==
    results # <<>> => \A i \in 1..Len(results) : UnitRate(results[i].rate)

\* the same for a sample that has rows, and for the function pipeline
C24_AsImplemented ==
    (results # <<>> /\ (variant = "functions" \/ Len(cand.rows) > 0)) =>
        \A i \in 1..Len(results) : UnitRate(results[i].rate)


\* every sampled cell of the column is a bare number
BareNumbers(col) ==
    /\ Len(cand.rows) > 0
    /\ \A i \in 1..Len(cand.rows) : notna(to_numeric(cand.rows[i][col]))

\* C25: extraction from a cell that already parses as a pure number yields
\* no extracted postcode, so for a column whose cells are bare numbers the
\* INDIRECT method validates no row as correct
C25_BareNumbersNotExtracted ==
    results # <<>> =>
        \A i \in 1..Len(results) :
            (results[i].method = "INDIRECT" /\ BareNumbers(results[i].column))
                => results[i].rate[1] = 0

\* the function pipeline blanks the cells that parse as numbers first
C25_FunctionsBlankNumbers ==
    (results # <<>> /\ variant = "functions") =>
        \A i \in 1..Len(results) :
            (results[i].method = "INDIRECT" /\ BareNumbers(results[i].column))
                => results[i].rate[1] = 0


\* C26: for any sequence of calls on one ConvertPostcodes object, whenever
\* convert_column runs to completion the column, method and regex it used
\* passed the configuration checks: the column is in the table, the method
\* is DIRECT or INDIRECT, and INDIRECT has a regex pattern; a configuration
\* call that raised leaves nothing rejected behind for convert_column
C26_ConvertUsesCheckedConfig ==
    (call # <<>> /\ LastCall.op = "convert_column" /\ err = "none") =>
        /\ conv.column \in heap[1].cols
        /\ conv.method \in {"DIRECT", "INDIRECT"}
        /\ conv.method = "INDIRECT" => conv.regex # None


\* convert_column ran to completion with the INDIRECT method
IndirectConverted ==
    /\ call # <<>> /\ LastCall.op = "convert_column" /\ err = "none"
    /\ conv.method = "INDIRECT"

\* every row of the converted table holds the extraction of its own cell
ExtractedFromOwnRow ==
    \A i \in 1..Len(heap[1].rows) :
        heap[2].rows[i]["EXTRACTED_POSTCODE"] =
            regex_extract(<<heap[1].rows[i][conv.column]>>, conv.regex[1])[1]

\* C27: in ConvertPostcodes.convert_column with the INDIRECT method, for
\* every row of the full table the extracted-postcode value stored in that
\* row is the extraction computed from that same row's candidate cell,
\* whatever the table's row labels are
C27_ExtractionAlignedPerRow == IndirectConverted => ExtractedFromOwnRow

\* the same for a table whose row labels are 0..n-1
C27_AlignedOnRangeIndex ==
    (/\ IndirectConverted
     /\ \A i \in 1..Len(heap[1].rows) : heap[1].index[i] = i - 1)
        => ExtractedFromOwnRow


\* a format_* function has returned to its caller
FormatReturned ==
    /\ call # <<>>
    /\ call[1].op \in {"format_onemap", "format_opendata",
                       "format_postcodebase"}
    /\ pc \in {"formatted", "validated"}

\* C28: format_onemap, format_opendata and format_postcodebase leave the
\* caller's postcode_validation configuration unchanged: after any of them
\* returns, drop_incorrect and keep_validation_fields have the values they
\* had before the call, so a later validate_and_format_postcodes with the
\* same configuration object still keeps invalid rows and the flag and
\* reason columns
C28_CallerConfigUnchanged ==
    FormatReturned =>
        /\ cfg.drop_incorrect = call[1].postcode_validation.drop_incorrect
        /\ cfg.keep_validation_fields =
              call[1].postcode_validation.keep_validation_fields
        /\ (/\ pc = "validated"
            /\ ~call[1].postcode_validation.drop_incorrect
            /\ call[1].postcode_validation.keep_validation_fields) =>
              /\ Len(heap[3].rows) = Len(heap[1].rows)
              /\ {FLAG, REASON} \subseteq heap[3].cols

\* the configuration the caller holds afterwards drops and hides
C28_AsImplemented ==
    FormatReturned =>
        /\ cfg = set_drop_and_hide(call[1].postcode_validation)
        /\ pc = "validated" =>
              /\ {FLAG, REASON} \cap heap[3].cols = {}
              /\ \A i \in 1..Len(heap[3].rows) :
                    heap[3].rows[i][FORMATTED] # NaN


\* the caller's table with its input column called postcode
AsPostcode ==
    [cols |-> (heap[1].cols \ {input_col}) \cup {"postcode"},
     rows |-> [i \in 1..Len(heap[1].rows) |->
                 [x \in (heap[1].cols \ {input_col}) \cup {"postcode"} |->
                     IF x = "postcode" THEN heap[1].rows[i][input_col]
                     ELSE heap[1].rows[i][x]]]]

\* the rows of t and u have the same flag, reason and formatted postcode
SameOutcome(t, u) ==
    /\ Len(t.rows) = Len(u.rows)
    /\ \A i \in 1..Len(t.rows) : \A f \in {FLAG, REASON, FORMATTED} :
          t.rows[i][f] = u.rows[i][f]

\* C30: the validation outcome of a row (flag, reason, formatted postcode)
\* depends only on the cell's value and the configuration, not on the name
\* of the input column: two tables that differ only in the input column's
\* name give the same outcome per row, also when that name is the name of a
\* derived field
C30_OutcomeIndependentOfName ==
    /\ pc = "parsed" =>
          SameOutcome(heap[2],
                      parse_numeric_postcodes(AsPostcode, "postcode", Names))
    /\ pc = "validated" =>
          SameOutcome(heap[2],
                      nodes_validate_and_format_postcodes(
                          AsPostcode, "postcode", cfg, master))
    /\ pc = "raised" =>
          nodes_validate_error(AsPostcode, "postcode", cfg, master) = err

\* the same for an input column whose name is no derived field's name
C30_AsImplemented ==
    input_col \notin {FLAG, REASON, FORMATTED} => C30_OutcomeIndependentOfName

====
